---- MODULE Spec2Model ----
(***************************************************************************)
(* Model of the VectorInsight data pipeline (src/pipeline): the Species    *)
(* Normalizer and Record Cleaner (modules/data_processing.py), the         *)
(* per-house report builder (export_report_format) and the indoor resting  *)
(* density metric (modules/metrics_calculator.py).                         *)
(*                                                                         *)
(* A table (pandas DataFrame) is a record [cols, rows]: cols is the set of *)
(* column names, rows a sequence of functions from cols to cells.  A cell  *)
(* is a tagged value [k, s, n, d]: k = "s" a string s, k = "n" the number  *)
(* n/d, k = "d" a timestamp whose ISO date is s, k = "b" a boolean (n = 1  *)
(* is True), k = "inf" a float infinity, k = "nan" NaN/NaT and k = "none"  *)
(* Python None.                                                            *)
(***************************************************************************)
EXTENDS Integers, Sequences, FiniteSets, TLC

VARIABLES
    raw_surveillance,   \* the caller's surveillance DataFrame
    raw_specimens,      \* the caller's specimens DataFrame
    clean_surveillance, \* result of clean_surveillance_data, or NoTable
    clean_specimens,    \* result of clean_specimens_data, or NoTable
    report,             \* result of export_report_format: [raised, rows]
    density,            \* result of calculate_indoor_resting_density
    label,              \* normalizer input (one raw Species cell)
    once,               \* normalizer applied once to label
    twice,              \* normalizer applied to the result of the first pass
    merged,             \* result of merge_data, or NoTable
    metrics,            \* the metrics bundle of calculate_all_metrics
    run,                \* one process of the command line: steps and effects
    monthly_metrics,    \* the rows of the monthly_metrics table
    calls,              \* the insert_metric calls made, oldest first
    pc                  \* position of the caller

vars == <<raw_surveillance, raw_specimens, clean_surveillance, clean_specimens,
          report, density, label, once, twice, merged, metrics, run,
          monthly_metrics, calls, pc>>

-----------------------------------------------------------------------------
(* Bounds of the model *)

MaxPad == 1
MaxSpecimens == 2
MaxSessions == 2
MaxRuns == 2
MaxInserts == 3

-----------------------------------------------------------------------------
(* Cells *)

S(x) == [k |-> "s", s |-> x, n |-> 0, d |-> 1]
N(i) == [k |-> "n", s |-> "", n |-> i, d |-> 1]
Ratio(a, b) == [k |-> "n", s |-> "", n |-> a, d |-> b]
D(iso) == [k |-> "d", s |-> iso, n |-> 0, d |-> 1]
B(b) == [k |-> "b", s |-> "", n |-> IF b THEN 1 ELSE 0, d |-> 1]
Inf == [k |-> "inf", s |-> "", n |-> 0, d |-> 1]
NaN == [k |-> "nan", s |-> "", n |-> 0, d |-> 1]
None == [k |-> "none", s |-> "", n |-> 0, d |-> 1]

IsNA(c) == c.k \in {"nan", "none"}

NoTable == [cols |-> {}, rows |-> <<>>, absent |-> TRUE]
Table(cols, rows) == [cols |-> cols, rows |-> rows, absent |-> FALSE]

-----------------------------------------------------------------------------
(* Python string operations *)

Char(s, i) == SubSeq(s, i, i)

UpperChars == "ABCDEFGHIJKLMNOPQRSTUVWXYZ"
LowerChars == "abcdefghijklmnopqrstuvwxyz"
Digits == "0123456789"

IndexIn(alphabet, c) ==
    IF \E i \in 1..Len(alphabet) : Char(alphabet, i) = c
    THEN CHOOSE i \in 1..Len(alphabet) : Char(alphabet, i) = c
    ELSE 0

IsSpace(c) == c \in {" ", "\t", "\n"}

RECURSIVE LStrip(_)
LStrip(s) ==
    IF Len(s) > 0 /\ IsSpace(Char(s, 1)) THEN LStrip(Tail(s)) ELSE s

RECURSIVE RStrip(_)
RStrip(s) ==
    IF Len(s) > 0 /\ IsSpace(Char(s, Len(s)))
    THEN RStrip(SubSeq(s, 1, Len(s) - 1))
    ELSE s

\* str.strip()
Strip(s) == RStrip(LStrip(s))

\* the lower-case letter of every upper-case letter, and the converse
LowerOf ==
    [c \in {Char(UpperChars, i) : i \in 1..Len(UpperChars)} |->
        Char(LowerChars, IndexIn(UpperChars, c))]

UpperOf ==
    [c \in {Char(LowerChars, i) : i \in 1..Len(LowerChars)} |->
        Char(UpperChars, IndexIn(LowerChars, c))]

RECURSIVE Lower(_)
\* str.lower()
Lower(s) ==
    IF Len(s) = 0 THEN ""
    ELSE (IF Head(s) \in DOMAIN LowerOf THEN LowerOf[Head(s)] ELSE Head(s))
         \o Lower(Tail(s))

RECURSIVE Upper(_)
\* str.upper()
Upper(s) ==
    IF Len(s) = 0 THEN ""
    ELSE (IF Head(s) \in DOMAIN UpperOf THEN UpperOf[Head(s)] ELSE Head(s))
         \o Upper(Tail(s))

\* sub in s
Contains(sub, s) ==
    \E i \in 1..(Len(s) - Len(sub) + 1) : SubSeq(s, i, i + Len(sub) - 1) = sub

RECURSIVE NumStr(_)
\* str(n) of a non-negative integer
NumStr(n) ==
    IF n < 10 THEN Char(Digits, n + 1)
    ELSE NumStr(n \div 10) \o Char(Digits, (n % 10) + 1)

\* str(value) of one cell, as Series.astype(str) and str(specimen.get(..))
AsStr(c) ==
    CASE c.k = "s" -> c.s
      [] c.k = "n" -> NumStr(c.n)
      [] c.k = "d" -> c.s
      [] c.k = "b" -> (IF c.n = 1 THEN "True" ELSE "False")
      [] c.k = "inf" -> "inf"
      [] c.k = "nan" -> "nan"
      [] c.k = "none" -> "None"

-----------------------------------------------------------------------------
(* Species Normalizer: data_processing.py, clean_specimens_data 114-168 *)

\* species_mapping, as <<key, value>> pairs in source order
species_mapping == <<
    <<"non-mosquito", "Non-Mosquito">>,
    <<"non mosquito", "Non-Mosquito">>,
    <<"Non mosquito", "Non-Mosquito">>,
    <<"non-Mosquito", "Non-Mosquito">>,
    <<"NON-MOSQUITO", "Non-Mosquito">>,
    <<"NON MOSQUITO", "Non-Mosquito">>,
    <<"unknown", "Unknown">>,
    <<"Unknown ", "Unknown">>,
    <<" Unknown", "Unknown">>,
    <<"UNKNOWN", "Unknown">>,
    <<"anopheles gambiae", "Anopheles gambiae">>,
    <<"Anopheles Gambiae", "Anopheles gambiae">>,
    <<"ANOPHELES GAMBIAE", "Anopheles gambiae">>,
    <<"anopheles funestus", "Anopheles funestus">>,
    <<"Anopheles Funestus", "Anopheles funestus">>,
    <<"ANOPHELES FUNESTUS", "Anopheles funestus">>,
    <<"anopheles other", "Anopheles other">>,
    <<"Anopheles Other", "Anopheles other">>,
    <<"ANOPHELES OTHER", "Anopheles other">>,
    <<"culex", "Culex">>,
    <<"CULEX", "Culex">>,
    <<"Culex ", "Culex">>,
    <<"mansonia", "Mansonia">>,
    <<"MANSONIA", "Mansonia">>,
    <<"Mansonia ", "Mansonia">>,
    <<"aedes", "Aedes">>,
    <<"AEDES", "Aedes">>,
    <<"Aedes ", "Aedes">> >>

MappingKeys == {species_mapping[i][1] : i \in 1..Len(species_mapping)}

\* Series.replace(species_mapping) on one value: exact match of the whole value
ReplaceMapped(s) ==
    IF s \in MappingKeys
    THEN species_mapping[CHOOSE i \in 1..Len(species_mapping) :
                            species_mapping[i][1] = s][2]
    ELSE s

\* the values line 168 turns into 'Unknown'
EmptyEquivalents == {"", "nan", "None", "null"}

\* a mutant: the strip is applied after the lookup and the empty test
NormalizeSpeciesStripLast(c) ==
    LET mapped == ReplaceMapped(AsStr(c))
    IN  S(Strip(IF mapped \in EmptyEquivalents THEN "Unknown" ELSE mapped))

\* a mutant: the empty-equivalents are left as they are
NormalizeSpeciesKeepEmpty(c) == S(ReplaceMapped(Strip(AsStr(c))))

\* lines 117, 165, 168 applied to one cell of the Species column
NormalizeSpecies(c) ==
    LET stripped == Strip(AsStr(c))
        mapped == ReplaceMapped(stripped)
    IN  S(IF mapped \in EmptyEquivalents THEN "Unknown" ELSE mapped)

-----------------------------------------------------------------------------
(* pandas column operations, one cell at a time *)

IsDigits(s) ==
    Len(s) > 0 /\ \A i \in 1..Len(s) : IndexIn(Digits, Char(s, i)) # 0

RECURSIVE ParseInt(_)
ParseInt(s) ==
    IF Len(s) = 0 THEN 0
    ELSE 10 * ParseInt(SubSeq(s, 1, Len(s) - 1))
         + (IndexIn(Digits, Char(s, Len(s))) - 1)

\* pd.to_numeric(errors='coerce'): a number stays, a string of digits is
\* parsed, anything else becomes NaN
ToNumeric(c) ==
    CASE c.k = "n" -> c
      [] c.k = "inf" -> c
      [] c.k = "s" /\ IsDigits(Strip(c.s)) -> N(ParseInt(Strip(c.s)))
      [] OTHER -> NaN

IsLeap(y) == (y % 4 = 0 /\ y % 100 # 0) \/ y % 400 = 0

DaysInMonth(y, m) ==
    IF m = 2 THEN (IF IsLeap(y) THEN 29 ELSE 28)
    ELSE IF m \in {4, 6, 9, 11} THEN 30 ELSE 31

\* the strings the model's date parser accepts: YYYY-MM-DD of a real day
IsIsoDate(s) ==
    /\ Len(s) = 10
    /\ IsDigits(SubSeq(s, 1, 4)) /\ Char(s, 5) = "-"
    /\ IsDigits(SubSeq(s, 6, 7)) /\ Char(s, 8) = "-"
    /\ IsDigits(SubSeq(s, 9, 10))
    /\ ParseInt(SubSeq(s, 6, 7)) \in 1..12
    /\ ParseInt(SubSeq(s, 9, 10)) \in
          1..DaysInMonth(ParseInt(SubSeq(s, 1, 4)), ParseInt(SubSeq(s, 6, 7)))

\* pd.to_datetime(errors='coerce'): unparseable values become NaT
ToDatetime(c) ==
    CASE c.k = "d" -> c
      [] c.k = "s" /\ IsIsoDate(Strip(c.s)) -> D(Strip(c.s))
      [] OTHER -> NaN

\* Series.fillna(v)
FillNA(c, v) == IF IsNA(c) THEN v ELSE c

\* .dt.year, .dt.month, .dt.strftime('%Y-%m'), .dt.quarter
DtYear(c) == IF c.k = "d" THEN N(ParseInt(SubSeq(c.s, 1, 4))) ELSE NaN
DtMonth(c) == IF c.k = "d" THEN N(ParseInt(SubSeq(c.s, 6, 7))) ELSE NaN
DtYearMonth(c) == IF c.k = "d" THEN S(SubSeq(c.s, 1, 7)) ELSE NaN
DtQuarter(c) ==
    IF c.k = "d" THEN N(((ParseInt(SubSeq(c.s, 6, 7)) - 1) \div 3) + 1) ELSE NaN

\* a > b on two cells of a numeric column; False when either is NaN
GreaterThan(a, b) ==
    CASE a.k = "n" /\ b.k = "n" -> a.n * b.d > b.n * a.d
      [] a.k = "inf" /\ b.k = "n" -> TRUE
      [] OTHER -> FALSE

\* a * m on a cell of a numeric column; NaN and inf stay
Times(a, m) == IF a.k = "n" THEN Ratio(a.n * m, a.d) ELSE a

\* df[mask]: the rows whose mask entry is True, in the order of df
SelectRows(t, mask) ==
    LET kept[i \in 0..Len(t.rows)] ==
            IF i = 0 THEN <<>>
            ELSE IF mask[i] THEN Append(kept[i - 1], t.rows[i])
            ELSE kept[i - 1]
    IN  Table(t.cols, kept[Len(t.rows)])

FillUnknown(c) == FillNA(c, S("Unknown"))

\* one cell of column col after the three loops
\* `for col in ...: if col in df.columns: df[col] = ...` of a cleaner:
\* to_datetime on the date columns, to_numeric on the numeric columns,
\* fillna('Unknown') on the filled columns (no column is in two of the lists)
CoerceCell(col, v, dates, numerics, filled) ==
    IF col \in dates THEN ToDatetime(v)
    ELSE IF col \in numerics THEN ToNumeric(v)
    ELSE IF col \in filled THEN FillUnknown(v)
    ELSE v

-----------------------------------------------------------------------------
(* Record Cleaner: clean_surveillance_data, data_processing.py 27-105 *)

SurvDateColumns ==
    {"SessionCollectionDate", "SessionCreatedAt", "SessionCompletedAt",
     "SessionSubmittedAt", "SessionUpdatedAt", "CreatedAt", "UpdatedAt"}

SurvNumericColumns ==
    {"NumPeopleSleptInHouse", "MonthsSinceIrs", "NumLlinsAvailable",
     "NumPeopleSleptUnderLlin", "SessionID", "SiteID", "ProgramID", "ID"}

SurvCategoricalColumns ==
    {"LlinType", "LlinBrand", "SiteDistrict", "SessionCollectionMethod",
     "SessionSpecimenCondition", "ProgramCountry"}

\* column col of one row after lines 42-74
SurvCoerced(row, col) ==
    CoerceCell(col, row[col], SurvDateColumns, SurvNumericColumns,
               SurvCategoricalColumns \cup {"WasIrsConducted"})

\* NumPeopleSleptUnderLlin / NumPeopleSleptInHouse * 100, then fillna(0)
LlinUsageRate(u, h) ==
    IF u.k # "n" \/ h.k # "n" THEN N(0)
    ELSE IF h.n = 0 THEN (IF u.n = 0 THEN N(0) ELSE Inf)
    ELSE Ratio(u.n * 100 * h.d, u.d * h.n)

LargeHousehold == 50

\* a mutant: the nets check overrides the household check
SurvQualityFlagNetsLast(cols, row) ==
    LET nets == /\ "NumPeopleSleptUnderLlin" \in cols
                /\ "NumLlinsAvailable" \in cols
                /\ GreaterThan(SurvCoerced(row, "NumPeopleSleptUnderLlin"),
                               Times(SurvCoerced(row, "NumLlinsAvailable"), 2))
        large == /\ "NumPeopleSleptInHouse" \in cols
                 /\ GreaterThan(SurvCoerced(row, "NumPeopleSleptInHouse"),
                                N(LargeHousehold))
    IN  IF nets THEN S("Suspicious: More people than nets")
        ELSE IF large THEN S("Suspicious: Large household")
        ELSE S("OK")

\* lines 90-100: 'OK', then the nets check, then the household check
SurvQualityFlag(cols, row) ==
    LET nets == /\ "NumPeopleSleptUnderLlin" \in cols
                /\ "NumLlinsAvailable" \in cols
                /\ GreaterThan(SurvCoerced(row, "NumPeopleSleptUnderLlin"),
                               Times(SurvCoerced(row, "NumLlinsAvailable"), 2))
        large == /\ "NumPeopleSleptInHouse" \in cols
                 /\ GreaterThan(SurvCoerced(row, "NumPeopleSleptInHouse"),
                                N(LargeHousehold))
    IN  IF large THEN S("Suspicious: Large household")
        ELSE IF nets THEN S("Suspicious: More people than nets")
        ELSE S("OK")

\* the columns of the cleaned frame
SurvCleanCols(cols) ==
    cols
    \cup (IF "SessionCollectionDate" \in cols
          THEN {"CollectionYear", "CollectionMonth", "CollectionYearMonth",
                "CollectionQuarter"}
          ELSE {})
    \cup (IF {"NumPeopleSleptUnderLlin", "NumPeopleSleptInHouse"} \subseteq cols
          THEN {"LlinUsageRate"} ELSE {})
    \cup {"DataQualityFlag"}

\* one row of the cleaned frame: a column assigned by a later statement holds
\* that statement's value, every other column its coerced value
CleanSurveillanceRow(cols, row) ==
    [c \in SurvCleanCols(cols) |->
        IF c = "DataQualityFlag" THEN SurvQualityFlag(cols, row)
        ELSE IF c = "LlinUsageRate"
                /\ {"NumPeopleSleptUnderLlin", "NumPeopleSleptInHouse"}
                       \subseteq cols
            THEN LlinUsageRate(SurvCoerced(row, "NumPeopleSleptUnderLlin"),
                               SurvCoerced(row, "NumPeopleSleptInHouse"))
        ELSE IF "SessionCollectionDate" \in cols /\ c = "CollectionYear"
            THEN DtYear(SurvCoerced(row, "SessionCollectionDate"))
        ELSE IF "SessionCollectionDate" \in cols /\ c = "CollectionMonth"
            THEN DtMonth(SurvCoerced(row, "SessionCollectionDate"))
        ELSE IF "SessionCollectionDate" \in cols /\ c = "CollectionYearMonth"
            THEN DtYearMonth(SurvCoerced(row, "SessionCollectionDate"))
        ELSE IF "SessionCollectionDate" \in cols /\ c = "CollectionQuarter"
            THEN DtQuarter(SurvCoerced(row, "SessionCollectionDate"))
        ELSE SurvCoerced(row, c)]

\* clean_surveillance_data(df): the returned frame, one cleaned row per row
\* of df; the function has no statement that raises on the tables of the model
clean_surveillance_data(df) ==
    [raised |-> FALSE,
     df |-> Table(SurvCleanCols(df.cols),
                  [i \in 1..Len(df.rows) |->
                      CleanSurveillanceRow(df.cols, df.rows[i])])]

-----------------------------------------------------------------------------
(* Record Cleaner: clean_specimens_data, data_processing.py 107-224 *)

SpecDateColumns ==
    {"CapturedAt", "ImageSubmittedAt", "ImageUpdatedAt",
     "SessionCollectionDate", "SessionCreatedAt", "SessionCompletedAt",
     "SessionSubmittedAt", "SessionUpdatedAt"}

SpecNumericColumns == {"SessionID", "SiteID", "ProgramID", "ImageID"}

SpecCategoricalColumns ==
    {"Species", "Sex", "AbdomenStatus", "SessionCollectionMethod",
     "SiteDistrict", "ProgramCountry"}

\* _categorize_species, lines 226-248
categorize_species(c) ==
    IF IsNA(c) \/ c \in {S("N/A"), S("Unknown")} THEN S("Unknown")
    ELSE LET species_lower == Lower(AsStr(c)) IN
         IF Contains("gambiae", species_lower)
             THEN S("Anopheles gambiae complex")
         ELSE IF Contains("funestus", species_lower)
             THEN S("Anopheles funestus group")
         ELSE IF Contains("arabiensis", species_lower)
             THEN S("Anopheles arabiensis")
         ELSE IF Contains("anopheles", species_lower)
             THEN S("Other Anopheles")
         ELSE IF Contains("culex", species_lower)
             THEN S("Culex (nuisance)")
         ELSE IF Contains("aedes", species_lower)
             THEN S("Aedes (arbovirus vector)")
         ELSE IF Contains("non-mosquito", species_lower)
                 \/ Contains("non mosquito", species_lower)
             THEN S("Non-mosquito")
         ELSE S("Other")

\* column col of one row after lines 114-196: the Species column is
\* normalized first, then the three loops run
SpecCoerced(row, col) ==
    CoerceCell(col,
               IF col = "Species" THEN NormalizeSpecies(row[col]) ELSE row[col],
               SpecDateColumns, SpecNumericColumns, SpecCategoricalColumns)

\* lines 215-219 on the Species and Sex cells of one row
SpecQualityFlag(species, sex) ==
    IF species \in {S("N/A"), S("Unknown")} /\ sex # S("N/A")
    THEN S("Missing species ID")
    ELSE S("OK")

\* the columns of the cleaned frame
SpecCleanCols(cols) ==
    cols
    \cup (IF "CapturedAt" \in cols
          THEN {"CaptureYear", "CaptureMonth", "CaptureYearMonth",
                "CaptureQuarter"}
          ELSE {})
    \cup (IF "Species" \in cols THEN {"SpeciesGroup"} ELSE {})
    \cup (IF "AbdomenStatus" \in cols THEN {"IsFed", "IsUnfed"} ELSE {})
    \cup {"DataQualityFlag"}

\* one row of the cleaned frame (the frame has the Species and Sex columns)
CleanSpecimensRow(cols, row) ==
    [c \in SpecCleanCols(cols) |->
        IF c = "DataQualityFlag"
            THEN SpecQualityFlag(SpecCoerced(row, "Species"),
                                 SpecCoerced(row, "Sex"))
        ELSE IF "AbdomenStatus" \in cols /\ c = "IsFed"
            THEN B(SpecCoerced(row, "AbdomenStatus") \in
                       {S("Fully Fed"), S("Half Gravid"), S("Gravid")})
        ELSE IF "AbdomenStatus" \in cols /\ c = "IsUnfed"
            THEN B(SpecCoerced(row, "AbdomenStatus") = S("Unfed"))
        ELSE IF "Species" \in cols /\ c = "SpeciesGroup"
            THEN categorize_species(SpecCoerced(row, "Species"))
        ELSE IF "CapturedAt" \in cols /\ c = "CaptureYear"
            THEN DtYear(SpecCoerced(row, "CapturedAt"))
        ELSE IF "CapturedAt" \in cols /\ c = "CaptureMonth"
            THEN DtMonth(SpecCoerced(row, "CapturedAt"))
        ELSE IF "CapturedAt" \in cols /\ c = "CaptureYearMonth"
            THEN DtYearMonth(SpecCoerced(row, "CapturedAt"))
        ELSE IF "CapturedAt" \in cols /\ c = "CaptureQuarter"
            THEN DtQuarter(SpecCoerced(row, "CapturedAt"))
        ELSE SpecCoerced(row, c)]

\* a mutant: the cleaner returns only the rows it flags 'OK'
CleanSpecimensDropFlagged(df) ==
    IF {"Species", "Sex"} \subseteq df.cols
    THEN [raised |-> FALSE,
          df |-> SelectRows(
                     Table(SpecCleanCols(df.cols),
                           [i \in 1..Len(df.rows) |->
                               CleanSpecimensRow(df.cols, df.rows[i])]),
                     [i \in 1..Len(df.rows) |->
                         SpecQualityFlag(SpecCoerced(df.rows[i], "Species"),
                                         SpecCoerced(df.rows[i], "Sex"))
                             = S("OK")])]
    ELSE [raised |-> TRUE, df |-> NoTable]

\* clean_specimens_data(df): raises KeyError at line 218 when the frame has
\* no Species or no Sex column, and returns the cleaned frame otherwise
clean_specimens_data(df) ==
    IF {"Species", "Sex"} \subseteq df.cols
    THEN [raised |-> FALSE,
          df |-> Table(SpecCleanCols(df.cols),
                       [i \in 1..Len(df.rows) |->
                           CleanSpecimensRow(df.cols, df.rows[i])])]
    ELSE [raised |-> TRUE, df |-> NoTable]

-----------------------------------------------------------------------------
(* Report builder: export_report_format, data_processing.py 312-545 *)

\* Series.unique(): the distinct values in order of first appearance; all the
\* NaN cells count as one value
Unique(cells) ==
    LET Same(a, b) == a = b \/ (IsNA(a) /\ IsNA(b))
        seen[i \in 0..Len(cells)] ==
            IF i = 0 THEN <<>>
            ELSE IF \E j \in 1..(i - 1) : Same(cells[j], cells[i])
                 THEN seen[i - 1]
                 ELSE Append(seen[i - 1], cells[i])
    IN  seen[Len(cells)]

\* df[col] == value on one cell: NaN equals nothing, not even NaN
CellEq(a, b) ==
    /\ ~IsNA(a)
    /\ ~IsNA(b)
    /\ IF a.k = "n" /\ b.k = "n" THEN a.n * b.d = b.n * a.d ELSE a = b

\* specimen.get(col, ''): the cell, or '' when the frame has no such column
Get(cols, row, col) == IF col \in cols THEN row[col] ELSE S("")

\* a mutant: 'fed' is tested before 'unfed'
FeedingStatusFedFirst(abdomen) ==
    IF Contains("fed", abdomen) \/ Contains("blood", abdomen) THEN "F"
    ELSE IF Contains("unfed", abdomen) THEN "UF"
    ELSE IF Contains("gravid", abdomen) THEN "G"
    ELSE "UF"

\* lines 385-393
FeedingStatus(abdomen) ==
    IF Contains("unfed", abdomen) THEN "UF"
    ELSE IF Contains("fed", abdomen) \/ Contains("blood", abdomen) THEN "F"
    ELSE IF Contains("gravid", abdomen) THEN "G"
    ELSE "UF"

\* the branch of the if/elif chain of lines 398-444 a species label takes
SpeciesBranch(species) ==
    IF Contains("gambiae", species) THEN "gambiae"
    ELSE IF Contains("funestus", species) THEN "funestus"
    ELSE IF Contains("anopheles", species) THEN "anopheles"
    ELSE IF Contains("culex", species) THEN "culex"
    ELSE IF Contains("aedes", species) THEN "aedes"
    ELSE IF Contains("mansonia", species) THEN "mansonia"
    ELSE "none"

\* the counter names each branch uses
BranchCounters ==
    [gambiae |-> [status |-> "anGambiae", male |-> "AnGambiaeMale",
                  female |-> "AnGambiaeFemale", is_anopheles |-> TRUE],
     funestus |-> [status |-> "anFunestus", male |-> "AnFunestusMale",
                   female |-> "AnFunestusFemale", is_anopheles |-> TRUE],
     anopheles |-> [status |-> "anOther", male |-> "AnOtherMale",
                    female |-> "AnOtherFemale", is_anopheles |-> TRUE],
     culex |-> [status |-> "Culex", male |-> "culexMale",
                female |-> "culexFemale", is_anopheles |-> FALSE],
     aedes |-> [status |-> "Aedes", male |-> "aedesMale",
                female |-> "aedesFemale", is_anopheles |-> FALSE],
     mansonia |-> [status |-> "Mansonia", male |-> "mansoniaMale",
                   female |-> "mansoniaFemale", is_anopheles |-> FALSE]]

Branches == DOMAIN BranchCounters

StatusCounters == {BranchCounters[b].status \o st : b \in Branches,
                                                     st \in {"UF", "F", "G"}}

\* the keys of `counts`, lines 352-375
CounterNames ==
    {"total", "totalAnopheles", "totalOtherMosquitoes", "maleAnopheles"}
    \cup StatusCounters
    \cup {BranchCounters[b].male : b \in Branches}
    \cup {BranchCounters[b].female : b \in Branches}

\* a mutant: only the culex, aedes and mansonia branches count as other
\* mosquitoes
SpecimenCountersOthersByBranch(cols, specimen) ==
    LET species == Lower(AsStr(Get(cols, specimen, "Species")))
        sex == Lower(AsStr(Get(cols, specimen, "Sex")))
        abdomen == Lower(AsStr(Get(cols, specimen, "AbdomenStatus")))
        b == SpeciesBranch(species)
    IN  {"total"}
        \cup (IF b = "none" THEN {}
              ELSE {BranchCounters[b].status \o FeedingStatus(abdomen)}
                   \cup (IF Contains("male", sex)
                         THEN {BranchCounters[b].male}
                              \cup (IF BranchCounters[b].is_anopheles
                                    THEN {"maleAnopheles"} ELSE {})
                         ELSE IF Contains("female", sex)
                         THEN {BranchCounters[b].female}
                         ELSE {})
                   \cup (IF BranchCounters[b].is_anopheles
                         THEN {"totalAnopheles"}
                         ELSE {"totalOtherMosquitoes"}))

\* a mutant: the mansonia branch is missing
SpecimenCountersNoMansonia(cols, specimen) ==
    LET species == Lower(AsStr(Get(cols, specimen, "Species")))
        sex == Lower(AsStr(Get(cols, specimen, "Sex")))
        abdomen == Lower(AsStr(Get(cols, specimen, "AbdomenStatus")))
        b == IF SpeciesBranch(species) = "mansonia" THEN "none"
             ELSE SpeciesBranch(species)
    IN  {"total"}
        \cup (IF b = "none" THEN {}
              ELSE {BranchCounters[b].status \o FeedingStatus(abdomen)}
                   \cup (IF Contains("male", sex)
                         THEN {BranchCounters[b].male}
                              \cup (IF BranchCounters[b].is_anopheles
                                    THEN {"maleAnopheles"} ELSE {})
                         ELSE IF Contains("female", sex)
                         THEN {BranchCounters[b].female}
                         ELSE {}))
        \cup (IF b # "none" /\ BranchCounters[b].is_anopheles
              THEN {"totalAnopheles"}
              ELSE {"totalOtherMosquitoes"})

\* a mutant: the two sex tests are independent ifs, not if / elif
SpecimenCountersBothSexes(cols, specimen) ==
    LET species == Lower(AsStr(Get(cols, specimen, "Species")))
        sex == Lower(AsStr(Get(cols, specimen, "Sex")))
        abdomen == Lower(AsStr(Get(cols, specimen, "AbdomenStatus")))
        b == SpeciesBranch(species)
    IN  {"total"}
        \cup (IF b = "none" THEN {}
              ELSE {BranchCounters[b].status \o FeedingStatus(abdomen)}
                   \cup (IF Contains("male", sex)
                         THEN {BranchCounters[b].male}
                              \cup (IF BranchCounters[b].is_anopheles
                                    THEN {"maleAnopheles"} ELSE {})
                         ELSE {})
                   \cup (IF Contains("female", sex)
                         THEN {BranchCounters[b].female}
                         ELSE {}))
        \cup (IF b # "none" /\ BranchCounters[b].is_anopheles
              THEN {"totalAnopheles"}
              ELSE {"totalOtherMosquitoes"})

\* a mutant: maleAnopheles is incremented for the males of every group
SpecimenCountersMaleAnyGroup(cols, specimen) ==
    LET species == Lower(AsStr(Get(cols, specimen, "Species")))
        sex == Lower(AsStr(Get(cols, specimen, "Sex")))
        abdomen == Lower(AsStr(Get(cols, specimen, "AbdomenStatus")))
        b == SpeciesBranch(species)
    IN  {"total"}
        \cup (IF b = "none" THEN {}
              ELSE {BranchCounters[b].status \o FeedingStatus(abdomen)}
                   \cup (IF Contains("male", sex)
                         THEN {BranchCounters[b].male, "maleAnopheles"}
                         ELSE IF Contains("female", sex)
                         THEN {BranchCounters[b].female}
                         ELSE {}))
        \cup (IF b # "none" /\ BranchCounters[b].is_anopheles
              THEN {"totalAnopheles"}
              ELSE {"totalOtherMosquitoes"})

\* the counters one specimen increments (each by one), lines 378-450
SpecimenCounters(cols, specimen) ==
    LET species == Lower(AsStr(Get(cols, specimen, "Species")))
        sex == Lower(AsStr(Get(cols, specimen, "Sex")))
        abdomen == Lower(AsStr(Get(cols, specimen, "AbdomenStatus")))
        b == SpeciesBranch(species)
    IN  {"total"}
        \cup (IF b = "none" THEN {}
              ELSE {BranchCounters[b].status \o FeedingStatus(abdomen)}
                   \cup (IF Contains("male", sex)
                         THEN {BranchCounters[b].male}
                              \cup (IF BranchCounters[b].is_anopheles
                                    THEN {"maleAnopheles"} ELSE {})
                         ELSE IF Contains("female", sex)
                         THEN {BranchCounters[b].female}
                         ELSE {}))
        \cup (IF b # "none" /\ BranchCounters[b].is_anopheles
              THEN {"totalAnopheles"}
              ELSE {"totalOtherMosquitoes"})

\* `counts` after the loop over the specimens of one session: every counter
\* holds the number of increments it got
SessionCounts(specimens, session_id) ==
    LET increments ==
            UNION {{<<i, name>> :
                       name \in SpecimenCounters(specimens.cols,
                                                 specimens.rows[i])} :
                   i \in {j \in 1..Len(specimens.rows) :
                             CellEq(specimens.rows[j]["SessionID"],
                                    session_id)}}
    IN  [name \in CounterNames |->
            Cardinality({inc \in increments : inc[2] = name})]

\* session_info: the first surveillance row of the session (line 346)
SessionInfo(surveillance, session_id) ==
    surveillance.rows[
        CHOOSE i \in 1..Len(surveillance.rows) :
            /\ CellEq(surveillance.rows[i]["SessionID"], session_id)
            /\ \A j \in 1..(i - 1) :
                   ~CellEq(surveillance.rows[j]["SessionID"], session_id)]

\* one report row, lines 452-529: the session's metadata and its counts
ReportRow(surveillance, specimens, session_id) ==
    LET session_info == SessionInfo(surveillance, session_id) IN
    [session_id |-> session_id,
     houseNumber |-> IF "SessionHouseNumber" \in surveillance.cols
                     THEN session_info["SessionHouseNumber"]
                     ELSE session_id,
     collectionMethod |-> Get(surveillance.cols, session_info,
                              "SessionCollectionMethod"),
     peopleSlept |-> Get(surveillance.cols, session_info,
                         "NumPeopleSleptInHouse"),
     counts |-> SessionCounts(specimens, session_id)]

\* a mutant: one identifier per surveillance row, repeated ones included
SessionIdsPerRow(surveillance) ==
    [i \in 1..Len(surveillance.rows) |-> surveillance.rows[i]["SessionID"]]

\* line 344: surveillance_df['SessionID'].unique()
SessionIds(surveillance) ==
    Unique([i \in 1..Len(surveillance.rows) |->
               surveillance.rows[i]["SessionID"]])

\* export_report_format(surveillance_df, specimens_df): the rows written to
\* the report file.  It raises KeyError when a frame it indexes by SessionID
\* has no such column, and IndexError at line 346 when a session id is NaN
\* (no row equals NaN, so .iloc[0] has nothing to return)
export_report_format(surveillance, specimens) ==
    IF "SessionID" \notin surveillance.cols
    THEN [raised |-> TRUE, rows |-> <<>>]
    ELSE LET ids == SessionIds(surveillance) IN
         IF \/ \E n \in 1..Len(ids) : IsNA(ids[n])
            \/ (Len(ids) > 0 /\ "SessionID" \notin specimens.cols)
         THEN [raised |-> TRUE, rows |-> <<>>]
         ELSE [raised |-> FALSE,
               rows |-> [n \in 1..Len(ids) |->
                            ReportRow(surveillance, specimens, ids[n])]]

-----------------------------------------------------------------------------
(* merge_data, data_processing.py 250-275 *)

\* lines 256-260: the columns of the surveillance table taken into the merge
SessionCols ==
    {"SessionID", "SessionCollectionMethod", "SessionCollectionDate",
     "NumPeopleSleptInHouse", "SiteDistrict", "ProgramCountry",
     "WasIrsConducted", "NumLlinsAvailable", "LlinUsageRate"}

\* two merge keys match: equal values, and a null key matches a null key
MergeKeyEq(a, b) == CellEq(a, b) \/ (IsNA(a) /\ IsNA(b))

\* suffixes=('', '_session'): a session column whose name the specimens
\* table also has is renamed, the other session columns keep their name
MergedName(left_cols, c) == IF c \in left_cols THEN c \o "_session" ELSE c

\* a mutant: an inner join, which drops the specimens without a session
MergeDataInner(surveillance_df, specimens_df) ==
    LET session_cols == SessionCols \cap surveillance_df.cols
        right_cols == session_cols \ {"SessionID"}
        cols == specimens_df.cols
                \cup {MergedName(specimens_df.cols, c) : c \in right_cols}
        Source(c) ==
            CHOOSE x \in right_cols : MergedName(specimens_df.cols, x) = c
        Joined(i, j) ==
            [c \in cols |->
                IF c \in specimens_df.cols THEN specimens_df.rows[i][c]
                ELSE surveillance_df.rows[j][Source(c)]]
        RowsFor(i) ==
            LET m[j \in 0..Len(surveillance_df.rows)] ==
                    IF j = 0 THEN <<>>
                    ELSE IF MergeKeyEq(specimens_df.rows[i]["SessionID"],
                                       surveillance_df.rows[j]["SessionID"])
                         THEN Append(m[j - 1], Joined(i, j))
                         ELSE m[j - 1]
            IN  m[Len(surveillance_df.rows)]
        out[i \in 0..Len(specimens_df.rows)] ==
            IF i = 0 THEN <<>> ELSE out[i - 1] \o RowsFor(i)
    IN  IF "SessionID" \notin specimens_df.cols
           \/ "SessionID" \notin surveillance_df.cols
        THEN [raised |-> TRUE, df |-> NoTable]
        ELSE [raised |-> FALSE,
              df |-> Table(cols, out[Len(specimens_df.rows)])]

\* specimens_df.merge(surveillance_df[session_cols], on='SessionID',
\* how='left'): the specimens rows in their order, each joined to every
\* session row with the same key in the order of the surveillance table, or
\* to null session columns when there is none.  on='SessionID' raises
\* KeyError when either frame lacks the column.
merge_data(surveillance_df, specimens_df) ==
    LET session_cols == SessionCols \cap surveillance_df.cols
        right_cols == session_cols \ {"SessionID"}
        cols == specimens_df.cols
                \cup {MergedName(specimens_df.cols, c) : c \in right_cols}
        Source(c) ==
            CHOOSE x \in right_cols : MergedName(specimens_df.cols, x) = c
        Joined(i, j) ==
            [c \in cols |->
                IF c \in specimens_df.cols THEN specimens_df.rows[i][c]
                ELSE surveillance_df.rows[j][Source(c)]]
        Unmatched(i) ==
            [c \in cols |->
                IF c \in specimens_df.cols THEN specimens_df.rows[i][c]
                ELSE NaN]
        RowsFor(i) ==
            LET m[j \in 0..Len(surveillance_df.rows)] ==
                    IF j = 0 THEN <<>>
                    ELSE IF MergeKeyEq(specimens_df.rows[i]["SessionID"],
                                       surveillance_df.rows[j]["SessionID"])
                         THEN Append(m[j - 1], Joined(i, j))
                         ELSE m[j - 1]
                matches == m[Len(surveillance_df.rows)]
            IN  IF matches = <<>> THEN <<Unmatched(i)>> ELSE matches
        out[i \in 0..Len(specimens_df.rows)] ==
            IF i = 0 THEN <<>> ELSE out[i - 1] \o RowsFor(i)
    IN  IF "SessionID" \notin specimens_df.cols
           \/ "SessionID" \notin surveillance_df.cols
        THEN [raised |-> TRUE, df |-> NoTable]
        ELSE [raised |-> FALSE,
              df |-> Table(cols, out[Len(specimens_df.rows)])]

-----------------------------------------------------------------------------
(* Indoor resting density: metrics_calculator.py 267-350 *)

\* Series.str.contains(word, na=False, case=False) on one cell
StrContains(word, c) == ~IsNA(c) /\ Contains(Lower(word), Lower(AsStr(c)))

\* the mean of a column of counts: their sum over their number
Mean(sum, n) == Ratio(sum, n)

\* calculate_indoor_resting_density on the frames of the calculator.
\* psc_sessions and psc_specimens are the rows whose own
\* SessionCollectionMethod contains 'PSC'; the counts per SessionID of
\* psc_specimens are left-joined to psc_sessions (no match counts 0), so the
\* counts of all PSC session rows add up to the number of pairs of a PSC
\* session row and a PSC specimen row with the same SessionID.  A column the
\* function indexes and the frame lacks raises KeyError.
calculate_indoor_resting_density(surveillance, specimens) ==
    IF "SessionCollectionMethod" \notin surveillance.cols
    THEN [raised |-> TRUE, total_psc_collections |-> 0,
          avg_mosquitoes_per_house |-> N(0), avg_anopheles_per_house |-> N(0)]
    ELSE
    LET psc_sessions ==
            {i \in 1..Len(surveillance.rows) :
                StrContains("PSC",
                            surveillance.rows[i]["SessionCollectionMethod"])}
    IN
    IF psc_sessions = {}
    THEN [raised |-> FALSE, total_psc_collections |-> 0,
          avg_mosquitoes_per_house |-> N(0), avg_anopheles_per_house |-> N(0)]
    ELSE IF \/ ~({"SessionCollectionMethod", "SessionID", "Species"}
                    \subseteq specimens.cols)
            \/ ~({"SessionID", "SiteDistrict", "SessionCollectionDate"}
                    \subseteq surveillance.cols)
    THEN [raised |-> TRUE, total_psc_collections |-> 0,
          avg_mosquitoes_per_house |-> N(0), avg_anopheles_per_house |-> N(0)]
    ELSE
    LET psc_specimens ==
            {j \in 1..Len(specimens.rows) :
                StrContains("PSC", specimens.rows[j]["SessionCollectionMethod"])}
        anopheles_psc ==
            {j \in psc_specimens :
                StrContains("Anopheles", specimens.rows[j]["Species"])}
        Joined(sessions, counted) ==
            {<<i, j>> \in sessions \X counted :
                CellEq(surveillance.rows[i]["SessionID"],
                       specimens.rows[j]["SessionID"])}
    IN  [raised |-> FALSE,
         total_psc_collections |-> Cardinality(psc_sessions),
         avg_mosquitoes_per_house |->
             Mean(Cardinality(Joined(psc_sessions, psc_specimens)),
                  Cardinality(psc_sessions)),
         avg_anopheles_per_house |->
             Mean(Cardinality(Joined(psc_sessions, anopheles_psc)),
                  Cardinality(psc_sessions))]

-----------------------------------------------------------------------------
(* Intervention and collection-method metrics: metrics_calculator.py 137-219 *)

\* a + b on two cells of a float column
Plus(a, b) ==
    CASE a.k = "n" /\ b.k = "n" -> Ratio(a.n * b.d + b.n * a.d, a.d * b.d)
      [] a.k = "inf" \/ b.k = "inf" -> Inf
      [] OTHER -> NaN

\* Series.mean(): the sum of the non-null cells over their number, and NaN
\* when there is none (an empty column)
SeriesMean(cells) ==
    LET valid == {i \in 1..Len(cells) : ~IsNA(cells[i])}
        sum[i \in 0..Len(cells)] ==
            IF i = 0 THEN N(0)
            ELSE IF i \in valid THEN Plus(sum[i - 1], cells[i])
            ELSE sum[i - 1]
        total == sum[Len(cells)]
    IN  IF valid = {} THEN NaN
        ELSE IF total.k = "n"
             THEN Ratio(total.n, total.d * Cardinality(valid))
             ELSE total

\* the cells of one column, in row order
Column(t, col) == [i \in 1..Len(t.rows) |-> t.rows[i][col]]

\* calculate_intervention_metrics: the columns it indexes must exist
\* (KeyError otherwise); irs_rate_percent is guarded by the number of rows,
\* avg_llin_usage_rate by the presence of the LlinUsageRate column only
calculate_intervention_metrics(surveillance) ==
    IF ~({"WasIrsConducted", "NumLlinsAvailable", "LlinType", "LlinBrand"}
            \subseteq surveillance.cols)
    THEN [raised |-> TRUE, irs_rate_percent |-> N(0),
          avg_llin_usage_rate |-> N(0)]
    ELSE [raised |-> FALSE,
          irs_rate_percent |->
              IF Len(surveillance.rows) > 0
              THEN Ratio(100 * Cardinality(
                             {i \in 1..Len(surveillance.rows) :
                                 surveillance.rows[i]["WasIrsConducted"]
                                     = S("Yes")}),
                         Len(surveillance.rows))
              ELSE N(0),
          avg_llin_usage_rate |->
              IF "LlinUsageRate" \in surveillance.cols
              THEN SeriesMean(Column(surveillance, "LlinUsageRate"))
              ELSE N(0)]

\* lines 153-159: for every distinct method of the surveillance table with
\* at least one collection, the specimens of that method per collection
specimens_per_collection(surveillance, specimens) ==
    LET methods == Unique(Column(surveillance, "SessionCollectionMethod"))
        n_collections(method) ==
            Cardinality({i \in 1..Len(surveillance.rows) :
                CellEq(surveillance.rows[i]["SessionCollectionMethod"],
                       method)})
        n_specimens(method) ==
            Cardinality({j \in 1..Len(specimens.rows) :
                CellEq(specimens.rows[j]["SessionCollectionMethod"], method)})
    IN  {<<methods[m], Ratio(n_specimens(methods[m]),
                             n_collections(methods[m]))>> :
            m \in {x \in 1..Len(methods) : n_collections(methods[x]) > 0}}

\* calculate_collection_method_metrics: both tables are indexed by
\* SessionCollectionMethod (KeyError when one lacks the column)
calculate_collection_method_metrics(surveillance, specimens) ==
    IF "SessionCollectionMethod" \notin surveillance.cols
       \/ "SessionCollectionMethod" \notin specimens.cols
    THEN [raised |-> TRUE, specimens_per_collection |-> {}]
    ELSE [raised |-> FALSE,
          specimens_per_collection |->
              specimens_per_collection(surveillance, specimens)]

\* the columns the other calculators of the bundle index without a guard:
\* summary (56-68), temporal (70-97) and geographic (352-376) metrics
BundleSurveillanceColumns ==
    {"SessionCollectionDate", "SiteDistrict", "SessionCollectorName",
     "ProgramCountry", "CollectionYearMonth", "CollectionYear",
     "CollectionQuarter"}

\* temporal (70-97), species (99-135), collection-method (162-167),
\* blood-feeding (221-265) and geographic (352-376) metrics
BundleSpecimensColumns ==
    {"CaptureYearMonth", "Species", "SessionCollectionMethod",
     "AbdomenStatus", "SiteDistrict"}

\* calculate_all_metrics: the rate calculators are computed (lines 45-48),
\* of the other calculators only the KeyError of a missing column; an
\* exception of any calculator ends the bundle
\* the number of null cells of the table: df.isnull().sum().sum()
NullCells(t) ==
    Cardinality({<<i, c>> \in (1..Len(t.rows)) \X t.cols : IsNA(t.rows[i][c])})

\* lines 396-404: 100 - nulls / (len(df) * len(df.columns)) * 100; nulls is
\* a numpy integer, so on a table without rows the quotient is 0 / 0 = NaN
\* (a warning, no exception) and the score is NaN
Completeness(t) ==
    LET cells == Len(t.rows) * Cardinality(t.cols)
    IN  IF cells = 0 THEN NaN
        ELSE Ratio(100 * (cells - NullCells(t)), cells)

\* lines 387-393 and 410-411: the percentage of null cells of each column,
\* kept where it is > 0; on a table without rows every percentage is NaN,
\* and NaN > 0 is false
MissingPct(t) ==
    {<<c, Ratio(100 * Cardinality({i \in 1..Len(t.rows) : IsNA(t.rows[i][c])}),
                Len(t.rows))>> :
        c \in {c \in t.cols : \E i \in 1..Len(t.rows) : IsNA(t.rows[i][c])}}

calculate_data_quality_metrics(surveillance, specimens) ==
    [surveillance_completeness |-> Completeness(surveillance),
     specimens_completeness |-> Completeness(specimens),
     surveillance_missing_pct |-> MissingPct(surveillance),
     specimens_missing_pct |-> MissingPct(specimens)]

calculate_all_metrics(surveillance, specimens) ==
    LET collection_methods ==
            calculate_collection_method_metrics(surveillance, specimens)
        interventions == calculate_intervention_metrics(surveillance)
        indoor_density ==
            calculate_indoor_resting_density(surveillance, specimens)
        data_quality ==
            calculate_data_quality_metrics(surveillance, specimens)
    IN  [raised |-> \/ ~(BundleSurveillanceColumns \subseteq surveillance.cols)
                    \/ ~(BundleSpecimensColumns \subseteq specimens.cols)
                    \/ collection_methods.raised
                    \/ interventions.raised
                    \/ indoor_density.raised,
         specimens_per_collection |->
             collection_methods.specimens_per_collection,
         irs_rate_percent |-> interventions.irs_rate_percent,
         avg_llin_usage_rate |-> interventions.avg_llin_usage_rate,
         total_psc_collections |-> indoor_density.total_psc_collections,
         avg_mosquitoes_per_house |-> indoor_density.avg_mosquitoes_per_house,
         avg_anopheles_per_house |-> indoor_density.avg_anopheles_per_house,
         surveillance_completeness |-> data_quality.surveillance_completeness,
         specimens_completeness |-> data_quality.specimens_completeness,
         surveillance_missing_pct |-> data_quality.surveillance_missing_pct,
         specimens_missing_pct |-> data_quality.specimens_missing_pct]

-----------------------------------------------------------------------------
(* The orchestrator's filtering step: data_processing.py 556-605 and        *)
(* pipeline.py 73-82                                                        *)

\* the first of the candidate column names the frame has, or "" for none
SessionTypeColumn(cols) ==
    IF "SessionType" \in cols THEN "SessionType"
    ELSE IF "session_type" \in cols THEN "session_type"
    ELSE IF "sessionType" \in cols THEN "sessionType"
    ELSE ""

\* filter_surveillance_sessions(df): without a session-type column the frame
\* itself; otherwise a copy with the column stripped and upper-cased, reduced
\* to the rows whose type is SURVEILLANCE
filter_surveillance_sessions(df) ==
    LET col == SessionTypeColumn(df.cols)
        norm == [i \in 1..Len(df.rows) |->
                    [c \in df.cols |->
                        IF c = col
                        THEN S(Upper(Strip(AsStr(df.rows[i][c]))))
                        ELSE df.rows[i][c]]]
    IN  IF col = "" THEN df
        ELSE SelectRows(Table(df.cols, norm),
                        [i \in 1..Len(df.rows) |->
                            norm[i][col] = S("SURVEILLANCE")])

\* pipeline.py 80-82: when both frames have a 'session_id' column, only the
\* specimens whose session_id is one of the surveillance table's are kept
KeepSpecimensOfSessions(surveillance_df, specimens_df) ==
    IF "session_id" \in specimens_df.cols /\ "session_id" \in surveillance_df.cols
    THEN SelectRows(specimens_df,
             [j \in 1..Len(specimens_df.rows) |->
                 \E i \in 1..Len(surveillance_df.rows) :
                     MergeKeyEq(specimens_df.rows[j]["session_id"],
                                surveillance_df.rows[i]["session_id"])])
    ELSE specimens_df

-----------------------------------------------------------------------------
(* The store: database.py 46-234, and its use in pipeline.py 91-95, 169-235 *)

\* the columns of CREATE TABLE IF NOT EXISTS surveillance_sessions
SessionsSchema ==
    {"ID", "SessionID", "SessionFrontendID", "SessionHouseNumber",
     "SessionCollectorTitle", "SessionCollectorName", "SessionCollectionDate",
     "SessionCollectionMethod", "SessionSpecimenCondition", "SessionNotes",
     "NumPeopleSleptInHouse", "WasIrsConducted", "MonthsSinceIrs",
     "NumLlinsAvailable", "LlinType", "LlinBrand", "NumPeopleSleptUnderLlin",
     "SiteID", "SiteDistrict", "SiteSubCounty", "SiteParish",
     "SiteSentinelSite", "SiteHealthCenter", "ProgramID", "ProgramName",
     "ProgramCountry", "CreatedAt", "UpdatedAt", "ImportedAt"}

\* the columns of CREATE TABLE IF NOT EXISTS specimens
SpecimensSchema ==
    {"SpecimenID", "SessionID", "Species", "Sex", "AbdomenStatus",
     "CapturedAt", "ImageID", "ImageUrl", "SessionCollectionMethod",
     "SiteDistrict", "SiteSubCounty", "ProgramCountry", "ImportedAt"}

\* CREATE TABLE IF NOT EXISTS: an existing table is kept as it is, a missing
\* one is created empty
CreateIfNotExists(table, schema) ==
    IF table.absent THEN Table(schema, <<>>) ELSE table

\* CREATE INDEX IF NOT EXISTS on SessionCollectionDate and
\* SessionCollectionMethod of the sessions table and on Species and SessionID
\* of the specimens table (lines 121-139): on a table without the column the
\* statement raises
IndexColumnsPresent(sessions, specimens) ==
    /\ {"SessionCollectionDate", "SessionCollectionMethod"} \subseteq sessions.cols
    /\ {"Species", "SessionID"} \subseteq specimens.cols

\* a mutant: if_exists='append', the rows are added to those in the table
ToSqlAppend(table, df) ==
    IF table.absent \/ table.cols # df.cols THEN Table(df.cols, df.rows)
    ELSE Table(df.cols, table.rows \o df.rows)

\* df.to_sql(name, conn, if_exists='replace', index=False): the table is
\* dropped and created again from the frame
ToSqlReplace(table, df) == Table(df.cols, df.rows)

\* the table after a to_sql(if_exists='replace') that raised: as it was (no
\* connection), dropped and not yet created again, or created again from
\* the frame's columns with the inserted rows rolled back
ToSqlFailed(table, df) == {table, NoTable, Table(df.cols, <<>>)}

\* the store's tables when run() has caught an exception (pipeline.py
\* 134-136: the handler logs and returns False); a mutant restores the
\* tables the process found
StoreRolledBack(now, before) == before

StoreOnFailure(now, before) == now

\* _store_metrics, lines 199-233: the metrics of the modelled calculators in
\* the order of their insert_metric calls
StoredMetrics(bundle) ==
    << <<"interventions", "irs_coverage_rate", bundle.irs_rate_percent>>,
       <<"interventions", "llin_usage_rate", bundle.avg_llin_usage_rate>>,
       <<"indoor_density", "avg_mosquitoes_per_house",
         bundle.avg_mosquitoes_per_house>>,
       <<"indoor_density", "avg_anopheles_per_house",
         bundle.avg_anopheles_per_house>> >>

\* INSERT OR REPLACE under UNIQUE(year_month, metric_name, category), within
\* one month: the first k entries replace the rows of their keys
InsertMetrics(rows, entries, k) ==
    {r \in rows : \A i \in 1..k : <<r[1], r[2]>> # <<entries[i][1], entries[i][2]>>}
    \cup {entries[i] : i \in 1..k}

-----------------------------------------------------------------------------
(* Raw Species labels the normalizer is applied to *)

RECURSIVE Spaces(_)
Spaces(n) == IF n = 0 THEN "" ELSE " " \o Spaces(n - 1)

MappingValues == {species_mapping[i][2] : i \in 1..Len(species_mapping)}

LabelCores ==
    MappingKeys \cup MappingValues \cup EmptyEquivalents \cup
    {"N/A", "Anopheles arabiensis", "Spider", "cUlEx", "NaN", "NULL",
     "Anopheles  gambiae", "Culex\t"}

RawLabelCells ==
    {S(Spaces(a) \o c \o Spaces(b)) :
        <<a, c, b>> \in (0..MaxPad) \X LabelCores \X (0..MaxPad)}
    \cup {NaN, None}

-----------------------------------------------------------------------------
(* Input tables *)

\* all sequences of at most n elements of set
RECURSIVE SeqsUpTo(_, _)
SeqsUpTo(set, n) ==
    IF n = 0 THEN {<<>>}
    ELSE LET shorter == SeqsUpTo(set, n - 1)
         IN  shorter \cup {Append(q, x) : <<q, x>> \in shorter \X set}

\* the frame without the columns of drop (an upstream feed that lacks them)
WithoutCols(t, drop) ==
    Table(t.cols \ drop,
          [i \in 1..Len(t.rows) |-> [c \in t.cols \ drop |-> t.rows[i][c]]])

SurvRow(id, house, method, date, people, nets, under, irs, district) ==
    [SessionID |-> id, SessionHouseNumber |-> house,
     SessionCollectionMethod |-> method, SessionCollectionDate |-> date,
     NumPeopleSleptInHouse |-> people, NumLlinsAvailable |-> nets,
     NumPeopleSleptUnderLlin |-> under, WasIrsConducted |-> irs,
     SiteDistrict |-> district]

SurvCols ==
    {"SessionID", "SessionHouseNumber", "SessionCollectionMethod",
     "SessionCollectionDate", "NumPeopleSleptInHouse", "NumLlinsAvailable",
     "NumPeopleSleptUnderLlin", "WasIrsConducted", "SiteDistrict"}

SpecRow(sid, session, species, sex, abdomen, captured, method) ==
    [SpecimenID |-> sid, SessionID |-> session, Species |-> species,
     Sex |-> sex, AbdomenStatus |-> abdomen, CapturedAt |-> captured,
     SessionCollectionMethod |-> method]

SpecCols ==
    {"SpecimenID", "SessionID", "Species", "Sex", "AbdomenStatus",
     "CapturedAt", "SessionCollectionMethod"}

\* the end-to-end scenario of the specification: one PSC session, two specimens
ScenarioSurveillance ==
    Table(SurvCols,
          << SurvRow(N(1), S("H1"), S("PSC"), S("2024-03-15"),
                     N(4), N(2), N(3), S("Yes"), S("Gulu")) >>)

ScenarioSpecimens ==
    Table(SpecCols,
          << SpecRow(S("a"), N(1), S("Anopheles gambiae"), S("Female"),
                     S("Gravid"), S("2024-03-15"), S("PSC")),
             SpecRow(S("b"), N(1), S("Culex"), S("Male"),
                     S("Unfed"), S("2024-03-15"), S("PSC")) >>)

\* dirty surveillance rows: unparseable ids, dates and counts, null cells
DirtySurvRows ==
    {SurvRow(ih[1], ih[2], md[1], md[2], p[1], p[2], p[3], md[3], md[4]) :
        <<ih, md, p>> \in
            {<<N(1), S("H1")>>, <<S("abc"), S("H2")>>}
            \X {<<S("PSC"), S("2024-03-15"), S("Yes"), S("Gulu")>>,
                <<NaN, S("not a date"), NaN, NaN>>}
            \X {<<N(4), N(2), N(3)>>, <<N(51), N(1), N(5)>>,
                <<S("many"), NaN, N(0)>>}}

DirtySurvTables ==
    {WithoutCols(Table(SurvCols, rows), drop) :
        <<rows, drop>> \in
            SeqsUpTo(DirtySurvRows, MaxSessions)
            \X {{}, {"SessionCollectionDate"}, {"NumPeopleSleptInHouse"},
                {"NumLlinsAvailable", "SessionCollectionMethod"}}}

\* dirty specimen rows: label variants, null cells, unparseable ids and dates
DirtySpecRows ==
    {SpecRow(ic[1], ic[2], species, sa[1], sa[2], ic[3], sa[3]) :
        <<ic, species, sa>> \in
            {<<S("a"), N(1), S("2024-03-15")>>,
             <<S("b"), S("abc"), S("garbage")>>}
            \X {S("ANOPHELES GAMBIAE"), S(" culex "), S("  "), NaN, S("N/A")}
            \X {<<S("Female"), S("Gravid"), S("PSC")>>,
                <<NaN, NaN, NaN>>}}

DirtySpecTables ==
    {WithoutCols(Table(SpecCols, rows), drop) :
        <<rows, drop>> \in
            SeqsUpTo(DirtySpecRows, MaxSpecimens)
            \X {{}, {"Species"}, {"Sex"}, {"CapturedAt", "AbdomenStatus"}}}

\* surveillance tables for the report: one or two sessions, a repeated
\* session id, an unparseable session id, no session at all
SessionRow(id, house, method) ==
    SurvRow(id, house, method, S("2024-03-15"), N(4), N(2), N(3), S("Yes"),
            S("Gulu"))

SessionTables ==
    {Table(SurvCols, rows) : rows \in
        {<<>>,
         <<SessionRow(N(1), S("H1"), S("PSC"))>>,
         <<SessionRow(N(1), S("H1"), S("PSC")),
           SessionRow(S("2"), S("H2"), S("CDC Light Trap"))>>,
         <<SessionRow(N(1), S("H1"), S("PSC")),
           SessionRow(N(1), S("H9"), S("CDC"))>>,
         <<SessionRow(N(1), S("H1"), S("PSC")),
           SessionRow(S("abc"), S("H2"), S("PSC"))>>}}

\* female specimens of session 1 of every species, males of three of them,
\* specimens without a sex or with other abdomen statuses, and specimens of
\* session 2 and of a session the surveillance table does not have
ReportSpecRows ==
    {SpecRow(S("a"), N(1), ss[1], ss[2], S("Gravid"), S("2024-03-15"), S("PSC")) :
        ss \in
            ({S("Anopheles gambiae"), S("anopheles funestus"),
              S("Anopheles  coustani"), S("Culex"), S("AEDES"), S("Mansonia"),
              S("Non-Mosquito"), NaN} \X {S("Female")})
            \cup
            ({S("Anopheles gambiae"), S("Anopheles  coustani"), S("Culex")}
              \X {S("Male")})}
    \cup
    {SpecRow(S("b"), N(1), S("Culex"), sa[1], sa[2], S("2024-03-15"), S("PSC")) :
        sa \in {<<S("Male"), S("Unfed")>>, <<NaN, S("Fully Fed")>>,
                <<S("Female"), NaN>>}}
    \cup
    {SpecRow(S("c"), session, S("Anopheles gambiae"), S("Male"),
             S("Half Gravid"), S("2024-03-15"), S("CDC")) :
        session \in {S("2"), N(7)}}

ReportSpecTables ==
    {Table(SpecCols, rows) : rows \in SeqsUpTo(ReportSpecRows, MaxSpecimens)}

NoReport == [raised |-> FALSE, rows |-> <<>>]
NoDensity ==
    [raised |-> FALSE, total_psc_collections |-> 0,
     avg_mosquitoes_per_house |-> N(0), avg_anopheles_per_house |-> N(0)]

\* the files and tables outside the process before anything is written
NoExports ==
    [surveillance_csv |-> NoTable, specimens_csv |-> NoTable,
     report_csv |-> NoReport, report_written |-> FALSE, summary |-> FALSE]

EmptyStore == [sessions |-> NoTable, specimens |-> NoTable, metrics |-> {}]

\* no process started
NoRun ==
    [entry |-> "none", skip_extraction |-> FALSE, step |-> "none",
     started |-> <<>>, errors |-> {}, failed_at |-> "none",
     success |-> "none",
     tracking |-> "none", exit_status |-> -1, runs |-> 0,
     cache |-> [surveillance |-> <<>>, specimens |-> <<>>],
     store |-> EmptyStore, exports |-> NoExports,
     before |-> [store |-> EmptyStore, exports |-> NoExports,
                 cache |-> [surveillance |-> <<>>, specimens |-> <<>>],
                 success |-> "none"]]

\* no bundle computed yet
NoMetrics ==
    [raised |-> FALSE, specimens_per_collection |-> {},
     irs_rate_percent |-> N(0), avg_llin_usage_rate |-> N(0),
     total_psc_collections |-> 0, avg_mosquitoes_per_house |-> N(0),
     avg_anopheles_per_house |-> N(0),
     surveillance_completeness |-> N(0), specimens_completeness |-> N(0),
     surveillance_missing_pct |-> {}, specimens_missing_pct |-> {}]

\* surveillance tables for the indoor resting density: PSC sessions in
\* several spellings, other methods, a missing method, a repeated session id
DensitySessionTables ==
    {Table(SurvCols, rows) : rows \in
        {<<>>,
         <<SessionRow(N(1), S("H1"), S("PSC"))>>,
         <<SessionRow(N(1), S("H1"), S("PSC")),
           SessionRow(N(2), S("H2"), S("CDC Light Trap"))>>,
         <<SessionRow(S("2"), S("H2"), S("psc (indoor)")),
           SessionRow(N(1), S("H1"), S("PSC"))>>,
         <<SessionRow(N(1), S("H1"), S("CDC")),
           SessionRow(N(2), S("H2"), NaN)>>,
         <<SessionRow(N(1), S("H1"), S("PSC")),
           SessionRow(N(1), S("H9"), S("Psc"))>>}}

\* specimens of sessions 1 and 2 and of an unknown session, Anopheles or
\* not, whose own copy of the collection method is PSC or missing
DensitySpecRows ==
    {SpecRow(S("a"), session, species, S("Female"), S("Unfed"),
             S("2024-03-15"), method) :
        <<session, species, method>> \in
            {N(1), S("2"), N(7)}
            \X {S("ANOPHELES GAMBIAE"), S("Culex")}
            \X {S("PSC"), NaN}}

DensitySpecTables ==
    {Table(SpecCols, rows) : rows \in SeqsUpTo(DensitySpecRows, MaxSpecimens)}

-----------------------------------------------------------------------------
(* process_all, data_processing.py 547-554: clean both tables *)

\* a mutant: the cleaner works on the caller's frame instead of a copy
CallerFrameInPlace(raw, cleaned) == cleaned

\* lines 40 and 112, df = df.copy(): every assignment of the cleaner goes to
\* the copy, the caller's frame keeps its columns and cells
CallerFrame(raw, cleaned) == raw

CleanSurveillance ==
    /\ pc = "start"
    /\ LET r == clean_surveillance_data(raw_surveillance) IN
       /\ clean_surveillance' = r.df
       /\ raw_surveillance' = CallerFrame(raw_surveillance, r.df)
       /\ pc' = "surv_cleaned"
    /\ UNCHANGED <<monthly_metrics, calls, raw_specimens, clean_specimens, report, density,
                   label, once, twice,
                   merged, metrics, run>>

CleanSpecimens ==
    /\ pc = "surv_cleaned"
    /\ LET r == clean_specimens_data(raw_specimens) IN
       /\ clean_specimens' = r.df
       /\ raw_specimens' = CallerFrame(raw_specimens, r.df)
       /\ pc' = IF r.raised THEN "raised" ELSE "processed"
    /\ UNCHANGED <<monthly_metrics, calls, raw_surveillance, clean_surveillance, report, density,
                   label, once, twice,
                   merged, metrics, run>>

InitClean ==
    /\ \/ /\ raw_surveillance \in DirtySurvTables
          /\ raw_specimens = ScenarioSpecimens
       \/ /\ raw_surveillance = ScenarioSurveillance
          /\ raw_specimens \in DirtySpecTables
    /\ clean_surveillance = NoTable
    /\ clean_specimens = NoTable
    /\ report = NoReport
    /\ density = NoDensity
    /\ merged = NoTable
    /\ metrics = NoMetrics
    /\ run = NoRun
    /\ monthly_metrics = {}
    /\ calls = <<>>
    /\ label = None
    /\ once = None
    /\ twice = None
    /\ pc = "start"

NextClean == CleanSurveillance \/ CleanSpecimens

SpecClean == InitClean /\ [][NextClean]_vars

-----------------------------------------------------------------------------
(* The cleaners on households around the thresholds of the quality flag *)

\* occupants at and above the threshold and unparseable; nets and
\* sleepers at, above and far above twice the nets, and missing
FlagRows ==
    {SurvRow(N(1), S("H1"), S("PSC"), S("2024-03-15"),
             people, nu[1], nu[2], S("Yes"), S("Gulu")) :
        <<people, nu>> \in
            {N(50), N(51), S("51"), S("many")}
            \X {<<N(2), N(4)>>, <<N(2), N(5)>>, <<N(2), N(10)>>,
                <<NaN, N(5)>>, <<N(2), NaN>>, <<N(0), S("1")>>}}

FlagTables ==
    {Table(SurvCols, rows) : rows \in SeqsUpTo(FlagRows, MaxSessions)}
    \cup {WithoutCols(Table(SurvCols, <<row>>), drop) :
            <<row, drop>> \in
                FlagRows \X {{"NumLlinsAvailable"}, {"NumPeopleSleptInHouse"}}}

InitFlags ==
    /\ raw_surveillance \in FlagTables
    /\ raw_specimens = ScenarioSpecimens
    /\ clean_surveillance = NoTable
    /\ clean_specimens = NoTable
    /\ report = NoReport
    /\ density = NoDensity
    /\ merged = NoTable
    /\ metrics = NoMetrics
    /\ run = NoRun
    /\ monthly_metrics = {}
    /\ calls = <<>>
    /\ label = None
    /\ once = None
    /\ twice = None
    /\ pc = "start"

NextFlags == CleanSurveillance \/ CleanSpecimens

SpecFlags == InitFlags /\ [][NextFlags]_vars

-----------------------------------------------------------------------------
(* process_all line 552: the cleaned tables merged *)

\* sessions 1 and 2, a session without identifier and a second row of
\* session 1
MergeSessionRows ==
    {SessionRow(N(1), S("H1"), S("PSC")),
     SessionRow(S("2"), S("H2"), S("CDC")),
     SessionRow(NaN, S("H3"), S("HLC")),
     SessionRow(N(1), S("H4"), NaN)}

MergeSessionTables ==
    {Table(SurvCols, rows) : rows \in SeqsUpTo(MergeSessionRows, MaxSessions)}
    \cup {WithoutCols(ScenarioSurveillance, {"SessionID"})}

\* specimens of sessions 1 and 2, of an unknown session and without session
MergeSpecRows ==
    {SpecRow(S("a"), session, S("Culex"), S("Female"), S("Unfed"),
             S("2024-03-15"), S("PSC")) :
        session \in {N(1), S("2"), N(7), NaN}}

MergeSpecTables ==
    {Table(SpecCols, rows) : rows \in SeqsUpTo(MergeSpecRows, MaxSpecimens)}

MergeData ==
    /\ pc = "processed"
    /\ LET r == merge_data(clean_surveillance, clean_specimens) IN
       /\ merged' = r.df
       /\ pc' = IF r.raised THEN "raised" ELSE "merged"
    /\ UNCHANGED <<monthly_metrics, calls, raw_surveillance, raw_specimens, clean_surveillance,
                   clean_specimens, report, density, label, once, twice,
                   metrics, run>>

InitMerge ==
    /\ raw_surveillance \in MergeSessionTables
    /\ raw_specimens \in MergeSpecTables
    /\ clean_surveillance = NoTable
    /\ clean_specimens = NoTable
    /\ report = NoReport
    /\ density = NoDensity
    /\ merged = NoTable
    /\ metrics = NoMetrics
    /\ run = NoRun
    /\ monthly_metrics = {}
    /\ calls = <<>>
    /\ label = None
    /\ once = None
    /\ twice = None
    /\ pc = "start"

NextMerge == CleanSurveillance \/ CleanSpecimens \/ MergeData

SpecMerge == InitMerge /\ [][NextMerge]_vars

-----------------------------------------------------------------------------
(* The report built from the cleaned tables, pipeline.py 87-104 *)

ExportReport ==
    /\ pc = "processed"
    /\ report' = export_report_format(clean_surveillance, clean_specimens)
    /\ pc' = IF report'.raised THEN "raised" ELSE "exported"
    /\ UNCHANGED <<monthly_metrics, calls, raw_surveillance, raw_specimens, clean_surveillance,
                   clean_specimens, density, label, once, twice,
                   merged, metrics, run>>

InitReport ==
    /\ raw_surveillance \in SessionTables
    /\ raw_specimens \in ReportSpecTables \cup {ScenarioSpecimens}
    /\ clean_surveillance = NoTable
    /\ clean_specimens = NoTable
    /\ report = NoReport
    /\ density = NoDensity
    /\ merged = NoTable
    /\ metrics = NoMetrics
    /\ run = NoRun
    /\ monthly_metrics = {}
    /\ calls = <<>>
    /\ label = None
    /\ once = None
    /\ twice = None
    /\ pc = "start"

NextReport == CleanSurveillance \/ CleanSpecimens \/ ExportReport

SpecReport == InitReport /\ [][NextReport]_vars

-----------------------------------------------------------------------------
(* The indoor resting density of the cleaned tables, pipeline.py 87-111 *)

IndoorRestingDensity ==
    /\ pc = "processed"
    /\ density' = calculate_indoor_resting_density(clean_surveillance,
                                                   clean_specimens)
    /\ pc' = IF density'.raised THEN "raised" ELSE "metrics"
    /\ UNCHANGED <<monthly_metrics, calls, raw_surveillance, raw_specimens, clean_surveillance,
                   clean_specimens, report, label, once, twice,
                   merged, metrics, run>>

InitDensity ==
    /\ raw_surveillance \in DensitySessionTables
    /\ raw_specimens \in DensitySpecTables \cup {ScenarioSpecimens}
    /\ clean_surveillance = NoTable
    /\ clean_specimens = NoTable
    /\ report = NoReport
    /\ density = NoDensity
    /\ merged = NoTable
    /\ metrics = NoMetrics
    /\ run = NoRun
    /\ monthly_metrics = {}
    /\ calls = <<>>
    /\ label = None
    /\ once = None
    /\ twice = None
    /\ pc = "start"

NextDensity == CleanSurveillance \/ CleanSpecimens \/ IndoorRestingDensity

SpecDensity == InitDensity /\ [][NextDensity]_vars

-----------------------------------------------------------------------------
(* The metrics bundle of the cleaned tables, pipeline.py 87-111 *)

\* the feeds with every column the calculators of the bundle read
MetricsSurvCols ==
    SurvCols
    \cup {"LlinType", "LlinBrand", "SessionCollectorName", "ProgramCountry"}

MetricsSpecCols == SpecCols \cup {"SiteDistrict"}

MetricsSurvRow(id, method, people, under, irs) ==
    [c \in MetricsSurvCols |->
        IF c \in {"LlinType", "LlinBrand"} THEN NaN
        ELSE IF c = "SessionCollectorName" THEN S("VHT 1")
        ELSE IF c = "ProgramCountry" THEN S("Uganda")
        ELSE SurvRow(id, S("H1"), method, S("2024-03-15"), people, N(2),
                     under, irs, S("Gulu"))[c]]

\* usage rates of 75 and 100 percent, an empty house and sleepers without
\* occupants
MetricsSurvRows ==
    {MetricsSurvRow(N(1), S("PSC"), N(4), N(3), S("Yes")),
     MetricsSurvRow(N(2), S("CDC"), N(2), N(2), S("No")),
     MetricsSurvRow(N(3), S("PSC"), N(0), N(0), NaN),
     MetricsSurvRow(N(4), NaN, N(0), N(3), S("Yes"))}

\* tables of the feed, the empty one included, and empty tables of a feed
\* without the sleepers column or without the net type
MetricsSurvTables ==
    {Table(MetricsSurvCols, rows) :
        rows \in SeqsUpTo(MetricsSurvRows, MaxSessions)}
    \cup {WithoutCols(Table(MetricsSurvCols, <<>>), drop) :
            drop \in {{"NumPeopleSleptUnderLlin"}, {"LlinType"}}}

MetricsSpecRow(session, species, sex, abdomen, method) ==
    [c \in MetricsSpecCols |->
        IF c = "SiteDistrict" THEN S("Gulu")
        ELSE SpecRow(S("a"), session, species, sex, abdomen,
                     S("2024-03-15"), method)[c]]

MetricsSpecRows ==
    {MetricsSpecRow(N(1), S("Anopheles gambiae"), S("Female"), S("Unfed"),
                    method) :
        method \in {S("PSC"), S("CDC"), NaN}}

MetricsSpecTables ==
    {Table(MetricsSpecCols, rows) :
        rows \in SeqsUpTo(MetricsSpecRows, MaxSpecimens)}

CalculateMetrics ==
    /\ pc = "processed"
    /\ metrics' = calculate_all_metrics(clean_surveillance, clean_specimens)
    /\ pc' = IF metrics'.raised THEN "raised" ELSE "bundle"
    /\ UNCHANGED <<monthly_metrics, calls, raw_surveillance, raw_specimens, clean_surveillance,
                   clean_specimens, report, density, label, once, twice,
                   merged, run>>

InitMetrics ==
    /\ raw_surveillance \in MetricsSurvTables
    /\ raw_specimens \in MetricsSpecTables
    /\ clean_surveillance = NoTable
    /\ clean_specimens = NoTable
    /\ report = NoReport
    /\ density = NoDensity
    /\ merged = NoTable
    /\ metrics = NoMetrics
    /\ run = NoRun
    /\ monthly_metrics = {}
    /\ calls = <<>>
    /\ label = None
    /\ once = None
    /\ twice = None
    /\ pc = "start"

NextMetrics == CleanSurveillance \/ CleanSpecimens \/ CalculateMetrics

SpecMetrics == InitMetrics /\ [][NextMetrics]_vars

-----------------------------------------------------------------------------
(* One process of the command line: main() and VectorInsightPipeline.run(), *)
(* pipeline.py 48-136 and 285-330.  run.step is the position of the         *)
(* process, run.started the steps of run() started so far, run.errors the   *)
(* steps that ended with an error (an exception, or the loader logging an   *)
(* error and returning no frames); run.cache, run.store and run.exports are *)
(* the files and tables outside the process, run.before their state when    *)
(* the process started, with the result of the run before it.              *)

Steps ==
    <<"extraction", "filtering", "processing", "storage", "export",
      "metrics", "metrics_storage", "summary">>

\* the surveillance feed of the scenario with a second, CDC session
RunSurveillance ==
    Table(MetricsSurvCols,
          <<MetricsSurvRow(N(1), S("PSC"), N(4), N(3), S("Yes")),
            MetricsSurvRow(N(2), S("CDC"), N(2), N(2), S("No"))>>)

RunSpecimens ==
    Table(MetricsSpecCols,
          <<MetricsSpecRow(N(1), S("Anopheles gambiae"), S("Female"),
                           S("Gravid"), S("PSC")),
            MetricsSpecRow(N(1), S("Culex"), S("Male"), S("Unfed"),
                           S("PSC"))>>)

\* an earlier snapshot of the two feeds
OlderSurveillance ==
    Table(MetricsSurvCols,
          <<MetricsSurvRow(N(9), S("HLC"), N(3), N(1), S("No"))>>)

OlderSpecimens ==
    Table(MetricsSpecCols,
          <<MetricsSpecRow(N(9), S("Aedes"), S("Female"), S("Unfed"),
                           S("HLC"))>>)

\* a session whose identifier is not a number
UnparseableIdSurveillance ==
    Table(MetricsSurvCols,
          <<MetricsSurvRow(N(1), S("PSC"), N(4), N(3), S("Yes")),
            MetricsSurvRow(S("abc"), S("CDC"), N(2), N(2), S("No"))>>)

\* the table with one more column, holding the given cell in each row
WithColumn(t, col, cells) ==
    Table(t.cols \cup {col},
          [i \in 1..Len(t.rows) |->
              [c \in t.cols \cup {col} |->
                  IF c = col THEN cells[i] ELSE t.rows[i][c]]])

\* feeds with a session-type column: session 1 is a surveillance session,
\* session 2 a data-collection session
TypedSurveillance ==
    WithColumn(RunSurveillance, "SessionType",
               <<S(" surveillance "), S("DATA_COLLECTION")>>)

TypedSpecimens ==
    WithColumn(Table(MetricsSpecCols,
                     <<MetricsSpecRow(N(1), S("Culex"), S("Male"),
                                      S("Unfed"), S("PSC")),
                       MetricsSpecRow(N(2), S("Anopheles gambiae"),
                                      S("Female"), S("Gravid"), S("CDC"))>>),
               "SessionType",
               <<S(" surveillance "), S("DATA_COLLECTION")>>)

\* a specimen of session 1, one of session 2 and one of a session 7 that
\* the surveillance feed does not have
OrphanSpecimens ==
    Table(MetricsSpecCols,
          <<MetricsSpecRow(N(1), S("Culex"), S("Male"), S("Unfed"), S("PSC")),
            MetricsSpecRow(N(7), S("Anopheles gambiae"), S("Female"),
                           S("Gravid"), S("PSC")),
            MetricsSpecRow(S("2"), S("Aedes"), S("Female"), S("Fully Fed"),
                           S("CDC"))>>)

\* the snapshot files of the raw-data directory, oldest first: none, one
\* feed only, one or two generations of both feeds, feeds that lack a
\* column or hold an unparseable identifier, feeds with a session type, and
\* a specimens feed with an orphan
RunCaches ==
    {[surveillance |-> <<>>, specimens |-> <<>>],
     [surveillance |-> <<RunSurveillance>>, specimens |-> <<>>],
     [surveillance |-> <<RunSurveillance>>, specimens |-> <<RunSpecimens>>],
     [surveillance |-> <<OlderSurveillance, RunSurveillance>>,
      specimens |-> <<OlderSpecimens, RunSpecimens>>],
     [surveillance |-> <<RunSurveillance>>,
      specimens |-> <<WithoutCols(RunSpecimens, {"Sex"})>>],
     [surveillance |-> <<UnparseableIdSurveillance>>,
      specimens |-> <<RunSpecimens>>],
     [surveillance |-> <<WithoutCols(RunSurveillance, {"SessionCollectorName"})>>,
      specimens |-> <<RunSpecimens>>],
     [surveillance |-> <<TypedSurveillance>>, specimens |-> <<RunSpecimens>>],
     [surveillance |-> <<TypedSurveillance>>, specimens |-> <<TypedSpecimens>>],
     [surveillance |-> <<RunSurveillance>>, specimens |-> <<OrphanSpecimens>>]}

\* a store that does not exist yet, and one left by an earlier run
RunStores ==
    {EmptyStore,
     [sessions |-> clean_surveillance_data(OlderSurveillance).df,
      specimens |-> clean_specimens_data(OlderSpecimens).df,
      metrics |-> {<<"interventions", "llin_usage_rate", N(5)>>,
                   <<"summary", "total_collections", N(1)>>}]}

\* the step begins: it joins the steps started
Started(r, name) == [r EXCEPT !.started = Append(@, name)]

\* an exception in a step reaches `except Exception` of run() (134-136):
\* run() returns False with the store as it is
Caught(r, name, next) ==
    [r EXCEPT !.errors = @ \cup {name},
              !.failed_at = r.step,
              !.success = "false",
              !.step = "returned",
              !.store = StoreOnFailure(@, r.before.store)]

\* a mutant: the process exits with status 0 whatever run() returned
ExitStatusAlwaysZero(success) == 0

\* main(), lines 321-330: sys.exit(0) if success, sys.exit(1) otherwise
ExitStatus(success) == IF success = "true" THEN 0 ELSE 1

\* a mutant: a failed update of the tracker makes the run a failure
SuccessAfterTrackingStrict(success, updated) ==
    IF updated THEN success ELSE "false"

\* main(), lines 309-318: the exception of update_user_logs is caught and
\* logged as a warning, `success` is not assigned
SuccessAfterTracking(success, updated) == success

\* a mutant: the file modified first
Oldest(files) == files[1]

\* _load_existing_data, lines 157-158: sorted(files, key=st_mtime)[-1], the
\* file modified last
MostRecent(files) == files[Len(files)]

\* main(), lines 296-306.  Without the skip flag the check of line 299 reads
\* config.API_SECRET_KEY; config.py (line 17) defines API_KEY only, so the
\* read raises AttributeError and the process ends with status 1 before a
\* pipeline exists.  A direct call of run() has no such check.
RunMain ==
    /\ pc = "run"
    /\ run.step = "main"
    /\ run' = IF run.entry = "cli" /\ ~run.skip_extraction
              THEN [run EXCEPT !.step = "exited", !.exit_status = 1]
              ELSE [run EXCEPT !.step = "extraction"]
    /\ UNCHANGED <<monthly_metrics, calls, raw_surveillance, raw_specimens, clean_surveillance,
                   clean_specimens, report, density, label, once, twice,
                   merged, metrics, pc>>

\* run(), lines 62-64, and _load_existing_data (138-167): without a
\* surveillance file or without a specimens file the loader logs an error and
\* returns (None, None), and run() goes on to the filtering step; otherwise
\* the most recently modified file of each feed is read (read_parquet may
\* raise)
RunLoadExisting ==
    /\ pc = "run"
    /\ run.step = "extraction"
    /\ run.skip_extraction
    /\ LET r == Started(run, "extraction") IN
       IF run.cache.surveillance = <<>> \/ run.cache.specimens = <<>>
       THEN /\ run' = [r EXCEPT !.errors = @ \cup {"extraction"},
                                !.step = "filtering"]
            /\ UNCHANGED <<raw_surveillance, raw_specimens>>
       ELSE \/ /\ raw_surveillance' = MostRecent(run.cache.surveillance)
               /\ raw_specimens' = MostRecent(run.cache.specimens)
               /\ run' = [r EXCEPT !.step = "filtering"]
            \/ /\ run' = Caught(r, "extraction", "filtering")
               /\ UNCHANGED <<raw_surveillance, raw_specimens>>
    /\ UNCHANGED <<monthly_metrics, calls, clean_surveillance, clean_specimens, report, density,
                   label, once, twice, merged, metrics, pc>>

\* run(), lines 66-71, and extract_data (145-162): DataExtractor() evaluates
\* `api_key or config.API_SECRET_KEY` with api_key None (line 36); config has
\* no such attribute, so the constructor raises AttributeError before any
\* request is made
RunExtract ==
    /\ pc = "run"
    /\ run.step = "extraction"
    /\ ~run.skip_extraction
    /\ run' = Caught(Started(run, "extraction"), "extraction", "filtering")
    /\ UNCHANGED <<monthly_metrics, calls, raw_surveillance, raw_specimens, clean_surveillance,
                   clean_specimens, report, density, label, once, twice,
                   merged, metrics, pc>>

\* run(), lines 73-82: the session-type filter is applied to the specimens
\* frame; on None it raises AttributeError
RunFilter ==
    /\ pc = "run"
    /\ run.step = "filtering"
    /\ LET r == Started(run, "filtering") IN
       IF raw_specimens.absent
       THEN /\ run' = Caught(r, "filtering", "processing")
            /\ UNCHANGED raw_specimens
       ELSE /\ raw_specimens' =
                   KeepSpecimensOfSessions(raw_surveillance,
                       filter_surveillance_sessions(raw_specimens))
            /\ run' = [r EXCEPT !.step = "processing"]
    /\ UNCHANGED <<monthly_metrics, calls, raw_surveillance, clean_surveillance, clean_specimens,
                   report, density, label, once, twice, merged, metrics, pc>>

\* run(), lines 87-89: process_data cleans both frames and merges them
RunProcess ==
    /\ pc = "run"
    /\ run.step = "processing"
    /\ LET r == Started(run, "processing")
           surv == clean_surveillance_data(raw_surveillance)
           spec == clean_specimens_data(raw_specimens)
       IN  IF surv.raised \/ spec.raised
              \/ merge_data(surv.df, spec.df).raised
           THEN /\ run' = Caught(r, "processing", "storage")
                /\ UNCHANGED <<clean_surveillance, clean_specimens, merged>>
           ELSE /\ clean_surveillance' = surv.df
                /\ clean_specimens' = spec.df
                /\ merged' = merge_data(surv.df, spec.df).df
                /\ run' = [r EXCEPT !.step = "storage"]
    /\ UNCHANGED <<monthly_metrics, calls, raw_surveillance, raw_specimens, report, density, label,
                   once, twice, metrics, pc>>

\* run(), line 93: create_tables (it may raise: the database file cannot be
\* opened or written)
RunCreateTables ==
    /\ pc = "run"
    /\ run.step = "storage"
    /\ LET r == Started(run, "storage") IN
       \/ /\ IndexColumnsPresent(
                 CreateIfNotExists(run.store.sessions, SessionsSchema),
                 CreateIfNotExists(run.store.specimens, SpecimensSchema))
          /\ run' = [r EXCEPT
                     !.store.sessions = CreateIfNotExists(@, SessionsSchema),
                     !.store.specimens = CreateIfNotExists(@, SpecimensSchema),
                     !.step = "insert_surveillance"]
       \/ run' = Caught(r, "storage", "insert_surveillance")
    /\ UNCHANGED <<monthly_metrics, calls, raw_surveillance, raw_specimens, clean_surveillance,
                   clean_specimens, report, density, label, once, twice,
                   merged, metrics, pc>>

\* run(), line 94: insert_surveillance_data(clean_surveillance, replace=True)
RunInsertSurveillance ==
    /\ pc = "run"
    /\ run.step = "insert_surveillance"
    /\ \/ run' = [run EXCEPT
                     !.store.sessions = ToSqlReplace(@, clean_surveillance),
                     !.step = "insert_specimens"]
       \/ \E t \in ToSqlFailed(run.store.sessions, clean_surveillance) :
              run' = Caught([run EXCEPT !.store.sessions = t],
                            "storage", "insert_specimens")
    /\ UNCHANGED <<monthly_metrics, calls, raw_surveillance, raw_specimens, clean_surveillance,
                   clean_specimens, report, density, label, once, twice,
                   merged, metrics, pc>>

\* run(), line 95: insert_specimens_data(clean_specimens, replace=True)
RunInsertSpecimens ==
    /\ pc = "run"
    /\ run.step = "insert_specimens"
    /\ \/ run' = [run EXCEPT
                     !.store.specimens = ToSqlReplace(@, clean_specimens),
                     !.step = "export"]
       \/ \E t \in ToSqlFailed(run.store.specimens, clean_specimens) :
              run' = Caught([run EXCEPT !.store.specimens = t],
                            "storage", "export")
    /\ UNCHANGED <<monthly_metrics, calls, raw_surveillance, raw_specimens, clean_surveillance,
                   clean_specimens, report, density, label, once, twice,
                   merged, metrics, pc>>

\* run(), lines 99-101: export_to_csv writes the surveillance file, then the
\* specimens file; either write may raise
RunExportCsv ==
    /\ pc = "run"
    /\ run.step = "export"
    /\ LET r == Started(run, "export") IN
       \/ run' = [r EXCEPT !.exports.surveillance_csv = clean_surveillance,
                           !.exports.specimens_csv = clean_specimens,
                           !.step = "export_report"]
       \/ run' = Caught([r EXCEPT
                            !.exports.surveillance_csv = clean_surveillance],
                        "export", "export_report")
       \/ run' = Caught(r, "export", "export_report")
    /\ UNCHANGED <<monthly_metrics, calls, raw_surveillance, raw_specimens, clean_surveillance,
                   clean_specimens, report, density, label, once, twice,
                   merged, metrics, pc>>

\* run(), lines 102-104: export_report_format builds the report rows and
\* writes the report file
RunExportReport ==
    /\ pc = "run"
    /\ run.step = "export_report"
    /\ LET r == export_report_format(clean_surveillance, clean_specimens) IN
       \/ /\ ~r.raised
          /\ report' = r
          /\ run' = [run EXCEPT !.exports.report_csv = r,
                                !.exports.report_written = TRUE,
                                !.step = "metrics"]
       \/ /\ run' = Caught(run, "export", "metrics")
          /\ UNCHANGED report
    /\ UNCHANGED <<monthly_metrics, calls, raw_surveillance, raw_specimens, clean_surveillance,
                   clean_specimens, density, label, once, twice, merged,
                   metrics, pc>>

\* run(), line 110: calculate_metrics
RunCalculateMetrics ==
    /\ pc = "run"
    /\ run.step = "metrics"
    /\ LET r == Started(run, "metrics")
           bundle == calculate_all_metrics(clean_surveillance, clean_specimens)
       IN  IF bundle.raised
           THEN /\ run' = Caught(r, "metrics", "metrics_storage")
                /\ UNCHANGED metrics
           ELSE /\ metrics' = bundle
                /\ run' = [r EXCEPT !.step = "metrics_storage"]
    /\ UNCHANGED <<monthly_metrics, calls, raw_surveillance, raw_specimens, clean_surveillance,
                   clean_specimens, report, density, label, once, twice,
                   merged, pc>>

\* run(), line 114: _store_metrics inserts the metrics one by one, each in
\* its own transaction; an insert may raise after k of them are stored
RunStoreMetrics ==
    /\ pc = "run"
    /\ run.step = "metrics_storage"
    /\ LET r == Started(run, "metrics_storage")
           entries == StoredMetrics(metrics)
       IN  \E k \in 0..Len(entries) :
               LET stored == [r EXCEPT !.store.metrics =
                                 InsertMetrics(@, entries, k)]
               IN  run' = IF k = Len(entries)
                          THEN [stored EXCEPT !.step = "summary"]
                          ELSE Caught(stored, "metrics_storage", "summary")
    /\ UNCHANGED <<monthly_metrics, calls, raw_surveillance, raw_specimens, clean_surveillance,
                   clean_specimens, report, density, label, once, twice,
                   merged, metrics, pc>>

\* run(), lines 118-132: _generate_summary_report writes the summary file,
\* then run() returns True
RunSummaryReport ==
    /\ pc = "run"
    /\ run.step = "summary"
    /\ LET r == Started(run, "summary") IN
       \/ run' = [r EXCEPT !.exports.summary = TRUE,
                           !.success = "true",
                           !.step = "returned"]
       \/ run' = Caught(r, "summary", "returned")
    /\ UNCHANGED <<monthly_metrics, calls, raw_surveillance, raw_specimens, clean_surveillance,
                   clean_specimens, report, density, label, once, twice,
                   merged, metrics, pc>>

\* main(), lines 309-318: after a successful run the tracker is updated; its
\* exception is caught and logged as a warning
MainUpdateUserLogs ==
    /\ pc = "run"
    /\ run.entry = "cli"
    /\ run.step = "returned"
    /\ run.success = "true"
    /\ \E updated \in BOOLEAN :
           run' = [run EXCEPT
                      !.tracking = IF updated THEN "updated" ELSE "warning",
                      !.success = SuccessAfterTracking(@, updated),
                      !.step = "exit"]
    /\ UNCHANGED <<monthly_metrics, calls, raw_surveillance, raw_specimens, clean_surveillance,
                   clean_specimens, report, density, label, once, twice,
                   merged, metrics, pc>>

\* main(), lines 321-330
MainExit ==
    /\ pc = "run"
    /\ run.entry = "cli"
    /\ \/ run.step = "exit"
       \/ run.step = "returned" /\ run.success = "false"
    /\ run' = [run EXCEPT !.exit_status = ExitStatus(run.success),
                          !.step = "exited"]
    /\ UNCHANGED <<monthly_metrics, calls, raw_surveillance, raw_specimens, clean_surveillance,
                   clean_specimens, report, density, label, once, twice,
                   merged, metrics, pc>>

\* the pipeline is run again, by a new process or a new call, on the files
\* and tables the last one left
RunAgain ==
    /\ pc = "run"
    /\ run.runs < MaxRuns
    /\ \/ run.entry = "cli" /\ run.step = "exited"
       \/ run.entry = "call" /\ run.step = "returned"
    /\ \E skip \in BOOLEAN :
           run' = [NoRun EXCEPT
                      !.entry = run.entry,
                      !.skip_extraction = skip,
                      !.step = "main",
                      !.runs = run.runs + 1,
                      !.cache = run.cache,
                      !.store = run.store,
                      !.exports = run.exports,
                      !.before = [store |-> run.store,
                                  exports |-> run.exports,
                                  cache |-> run.cache,
                                  success |-> run.success]]
    /\ raw_surveillance' = NoTable
    /\ raw_specimens' = NoTable
    /\ clean_surveillance' = NoTable
    /\ clean_specimens' = NoTable
    /\ merged' = NoTable
    /\ report' = NoReport
    /\ metrics' = NoMetrics
    /\ UNCHANGED <<monthly_metrics, calls, density, label, once, twice, pc>>

InitRun ==
    /\ \E entry \in {"cli", "call"}, skip \in BOOLEAN,
          cache \in RunCaches, store \in RunStores :
           run = [NoRun EXCEPT
                     !.entry = entry,
                     !.skip_extraction = skip,
                     !.step = "main",
                     !.runs = 1,
                     !.cache = cache,
                     !.store = store,
                     !.before = [store |-> store, exports |-> NoExports,
                                 cache |-> cache, success |-> "none"]]
    /\ raw_surveillance = NoTable
    /\ raw_specimens = NoTable
    /\ clean_surveillance = NoTable
    /\ clean_specimens = NoTable
    /\ report = NoReport
    /\ density = NoDensity
    /\ merged = NoTable
    /\ metrics = NoMetrics
    /\ monthly_metrics = {}
    /\ calls = <<>>
    /\ label = None
    /\ once = None
    /\ twice = None
    /\ pc = "run"

NextRun ==
    \/ RunMain
    \/ RunLoadExisting
    \/ RunExtract
    \/ RunFilter
    \/ RunProcess
    \/ RunCreateTables
    \/ RunInsertSurveillance
    \/ RunInsertSpecimens
    \/ RunExportCsv
    \/ RunExportReport
    \/ RunCalculateMetrics
    \/ RunStoreMetrics
    \/ RunSummaryReport
    \/ MainUpdateUserLogs
    \/ MainExit
    \/ RunAgain

SpecRun == InitRun /\ [][NextRun]_vars

-----------------------------------------------------------------------------
(* The monthly_metrics table under insert_metric, database.py 106-118 and  *)
(* 214-234.  A row is its id, its key columns, its value and its payload;  *)
(* calculated_at is left out.                                              *)

\* UNIQUE(year_month, metric_name, category): two rows conflict when the
\* three columns are equal and none is NULL (NULLs are distinct in a UNIQUE
\* constraint; year_month and metric_name are NOT NULL)
SameKey(a, b) ==
    /\ a.year_month = b.year_month
    /\ a.metric_name = b.metric_name
    /\ a.category = b.category
    /\ ~IsNA(a.category)

\* a mutant: INSERT without OR REPLACE and without the constraint
InsertPlain(rows, id, call) ==
    rows \cup {[call EXCEPT !.id = id]}

\* INSERT OR REPLACE INTO monthly_metrics: the rows in conflict with the new
\* row are deleted, then the new row is inserted under a fresh id
InsertOrReplace(rows, id, call) ==
    {r \in rows : ~SameKey(r, call)} \cup {[call EXCEPT !.id = id]}

MetricCall(year_month, metric_name, metric_value, metric_json, category) ==
    [id |-> 0, year_month |-> year_month, metric_name |-> metric_name,
     metric_value |-> metric_value, metric_json |-> metric_json,
     category |-> category]

\* calls as _store_metrics makes them in two months, with a second value, a
\* payload, a second name, a second category, and one without a category
MetricCalls ==
    {MetricCall("2024-03", "llin_usage_rate", N(5), None, S("interventions")),
     MetricCall("2024-03", "llin_usage_rate", N(7), None, S("interventions")),
     MetricCall("2024-04", "llin_usage_rate", N(5), None, S("interventions")),
     MetricCall("2024-03", "irs_coverage_rate", N(5), None, S("interventions")),
     MetricCall("2024-03", "llin_usage_rate", N(0), S("{}"), S("temporal")),
     MetricCall("2024-03", "llin_usage_rate", N(1), None, None)}

\* db.insert_metric(year_month, metric_name, metric_value, metric_json,
\* category), committed at once; AUTOINCREMENT never reuses an id
insert_metric ==
    /\ pc = "store"
    /\ Len(calls) < MaxInserts
    /\ \E call \in MetricCalls :
           /\ monthly_metrics' =
                  InsertOrReplace(monthly_metrics, Len(calls) + 1, call)
           /\ calls' = Append(calls, call)
    /\ UNCHANGED <<raw_surveillance, raw_specimens, clean_surveillance,
                   clean_specimens, report, density, label, once, twice,
                   merged, metrics, run, pc>>

\* the table as create_tables has created it
InitStore ==
    /\ monthly_metrics = {}
    /\ calls = <<>>
    /\ raw_surveillance = NoTable
    /\ raw_specimens = NoTable
    /\ clean_surveillance = NoTable
    /\ clean_specimens = NoTable
    /\ report = NoReport
    /\ density = NoDensity
    /\ merged = NoTable
    /\ metrics = NoMetrics
    /\ run = NoRun
    /\ label = None
    /\ once = None
    /\ twice = None
    /\ pc = "store"

NextStore == insert_metric

SpecStore == InitStore /\ [][NextStore]_vars

\* the steps of run() started so far are the first steps of the fixed order
StartedInOrder ==
    /\ Len(run.started) <= Len(Steps)
    /\ \A i \in 1..Len(run.started) : run.started[i] = Steps[i]

\* run() has returned
Returned == run.success # "none"

\* C15: the steps of a run start in the fixed order, a step that ended with
\* an error is the last step started (no later step starts after it), and a
\* run in which a step ended with an error returns failure.
C15_FixedOrderFailFast ==
    /\ StartedInOrder
    /\ \A i \in 1..Len(run.started) :
           run.started[i] \in run.errors => i = Len(run.started)
    /\ (Returned /\ run.errors # {}) => run.success = "false"

\* the process has ended
Exited == run.entry = "cli" /\ run.step = "exited"

\* run() went through every step without an error
CompletedEveryStep ==
    /\ run.success = "true"
    /\ run.started = Steps
    /\ run.errors = {}

\* C17: the process of the command line ends with status 0 exactly when the
\* run completed every step successfully, and with status 1 otherwise
\* (the credential check, a failed extraction, no cached snapshot, an
\* exception in a later step).
C17_ExitStatus ==
    Exited => /\ run.exit_status \in {0, 1}
              /\ run.exit_status = 0 <=> CompletedEveryStep

\* a process that ended with status 1 after the metrics step raised
C17_Witness ==
    /\ Exited
    /\ run.exit_status = 1
    /\ "metrics" \in run.errors

\* C18: the tracker is updated only after a successful run, and when the
\* update raises, the run stays a success and the process exits with 0.
C18_TrackerWarning ==
    /\ run.tracking # "none" => CompletedEveryStep
    /\ (Exited /\ run.tracking = "warning") => run.exit_status = 0

\* a process that ended with status 0 after the tracker update raised
C18_Witness ==
    /\ Exited
    /\ run.tracking = "warning"
    /\ run.exit_status = 0

\* the step has ended without an error: a later step has started
Completed(name) ==
    \E i \in 1..(Len(run.started) - 1) : run.started[i] = name

\* C19: when run() returns failure, what the completed steps wrote is still
\* there: the store tables hold the cleaned tables of this run once the
\* storage step has completed, the export files hold them once the export
\* step has completed.
C19_NoRollback ==
    run.success = "false" =>
        /\ Completed("storage") =>
               /\ run.store.sessions = clean_surveillance
               /\ run.store.specimens = clean_specimens
        /\ Completed("export") =>
               /\ run.exports.surveillance_csv = clean_surveillance
               /\ run.exports.specimens_csv = clean_specimens
               /\ run.exports.report_written
               /\ run.exports.report_csv = report

\* the metrics step raised after the storage and export steps had replaced
\* what the process found
C19_Witness ==
    /\ run.success = "false"
    /\ "metrics" \in run.errors
    /\ clean_surveillance.rows # <<>>
    /\ run.store.sessions = clean_surveillance
    /\ run.store.sessions # run.before.store.sessions
    /\ run.exports.surveillance_csv = clean_surveillance
    /\ run.exports.report_written

\* C20: after a successful run the sessions and specimens tables of the
\* store are the cleaned tables of that run, whatever they held before, and
\* a successful run after a successful run on the same snapshot leaves the
\* two tables as it found them.
C20_FullReplacement ==
    run.success = "true" =>
        /\ run.store.sessions = clean_surveillance
        /\ run.store.specimens = clean_specimens
        /\ run.before.success = "true" =>
               /\ run.store.sessions = run.before.store.sessions
               /\ run.store.specimens = run.before.store.specimens

\* a second successful run on the snapshot of the first
C20_Witness ==
    /\ run.success = "true"
    /\ run.runs = 2
    /\ run.before.success = "true"
    /\ run.store.sessions.rows # <<>>
    /\ run.store.specimens.rows # <<>>

-----------------------------------------------------------------------------
(* The normalizer applied to one label, then to its own result *)

InitNormalize ==
    /\ label \in RawLabelCells
    /\ once = None
    /\ twice = None
    /\ raw_surveillance = NoTable
    /\ raw_specimens = NoTable
    /\ clean_surveillance = NoTable
    /\ clean_specimens = NoTable
    /\ report = NoReport
    /\ density = NoDensity
    /\ merged = NoTable
    /\ metrics = NoMetrics
    /\ run = NoRun
    /\ monthly_metrics = {}
    /\ calls = <<>>
    /\ pc = "norm0"

NormalizeOnce ==
    /\ pc = "norm0"
    /\ once' = NormalizeSpecies(label)
    /\ pc' = "norm1"
    /\ UNCHANGED <<monthly_metrics, calls, raw_surveillance, raw_specimens, clean_surveillance,
                   clean_specimens, report, density, label, twice,
                   merged, metrics, run>>

NormalizeAgain ==
    /\ pc = "norm1"
    /\ twice' = NormalizeSpecies(once)
    /\ pc' = "norm2"
    /\ UNCHANGED <<monthly_metrics, calls, raw_surveillance, raw_specimens, clean_surveillance,
                   clean_specimens, report, density, label, once,
                   merged, metrics, run>>

NextNormalize == NormalizeOnce \/ NormalizeAgain

SpecNormalize == InitNormalize /\ [][NextNormalize]_vars

-----------------------------------------------------------------------------
(* C5: the Species Normalizer is idempotent: normalizing an already        *)
(* normalized label gives the same label, for every raw label (any casing, *)
(* surrounding whitespace, empty or null).                                 *)
C5_NormalizeIdempotent == pc = "norm2" => twice = once

\* a padded, upper-case label was canonicalised and the second pass kept it
C5_Witness ==
    /\ pc = "norm2"
    /\ label = S(" CULEX")
    /\ once = S("Culex")
    /\ twice = S("Culex")

(* C6: the normalizer returns the canonical name when the stripped label is *)
(* a key of the lookup table, 'Unknown' when the stripped label is one of    *)
(* '', 'nan', 'None', 'null' (a blank string, a null cell), and the stripped *)
(* label unchanged otherwise.                                                *)
C6_NormalizeCases ==
    pc \in {"norm1", "norm2"} =>
        LET t == Strip(AsStr(label)) IN
        /\ t \in MappingKeys =>
              \E i \in 1..Len(species_mapping) :
                  species_mapping[i][1] = t /\ once = S(species_mapping[i][2])
        /\ t \in {"", "nan", "None", "null"} => once = S("Unknown")
        /\ (t \notin MappingKeys /\ t \notin {"", "nan", "None", "null"}) =>
              once = S(t)
        /\ label = S("ANOPHELES GAMBIAE") => once = S("Anopheles gambiae")
        /\ label = S("culex ") => once = S("Culex")
        /\ label \in {S(""), S(" "), NaN, None} => once = S("Unknown")

\* a blank label became 'Unknown'
C6_Witness == pc = "norm1" /\ label = S(" ") /\ once = S("Unknown")

-----------------------------------------------------------------------------
(* C7: after clean_specimens the Species value of every row is a non-empty, *)
(* non-null string, and every null, empty or whitespace-only raw value has  *)
(* become the literal 'Unknown'.                                            *)
C7_SpeciesNeverEmpty ==
    pc = "processed" =>
        \A i \in 1..Len(clean_specimens.rows) :
            LET raw == raw_specimens.rows[i]["Species"]
                cleaned == clean_specimens.rows[i]["Species"]
            IN  /\ cleaned.k = "s"
                /\ Strip(cleaned.s) # ""
                /\ (IsNA(raw) \/ (raw.k = "s" /\ Strip(raw.s) = ""))
                      => cleaned = S("Unknown")

\* a table with a null and a whitespace-only label was cleaned
C7_Witness ==
    /\ pc = "processed"
    /\ Len(clean_specimens.rows) = 2
    /\ raw_specimens.rows[1]["Species"] = NaN
    /\ raw_specimens.rows[2]["Species"] = S("  ")
    /\ clean_specimens.rows[1]["Species"] = S("Unknown")
    /\ clean_specimens.rows[2]["Species"] = S("Unknown")

\* the cleaned frame has the rows of the raw frame, in the same order: the
\* same length, and the same value of a column the cleaner does not touch
SameRows(raw, cleaned, key) ==
    /\ Len(cleaned.rows) = Len(raw.rows)
    /\ \A i \in 1..Len(raw.rows) : cleaned.rows[i][key] = raw.rows[i][key]

(* C8: clean_surveillance and clean_specimens never drop or add rows: a    *)
(* returned table has exactly as many rows as the input, in the same order; *)
(* rows with quality problems are only flagged.                             *)
C8_RowsPreserved ==
    /\ pc \in {"surv_cleaned", "processed", "raised"} =>
          SameRows(raw_surveillance, clean_surveillance, "SessionHouseNumber")
    /\ pc = "processed" =>
          SameRows(raw_specimens, clean_specimens, "SpecimenID")

\* a specimen row flagged 'Missing species ID' is still in the cleaned table
C8_Witness ==
    /\ pc = "processed"
    /\ Len(clean_specimens.rows) = 2
    /\ clean_specimens.rows[1]["DataQualityFlag"] = S("Missing species ID")
    /\ clean_specimens.rows[2]["DataQualityFlag"] = S("OK")

(* C9: clean_surveillance and clean_specimens never fail: for every input  *)
(* table, also one with unparseable cells or without one of the recognised *)
(* columns (Species, Sex, AbdomenStatus, CapturedAt), the call returns.    *)
C9_NeverRaises == pc # "raised"

(* C10: the cleaners leave their input table unchanged: the caller's raw   *)
(* table has the same columns and cells after the call as before it.       *)
C10_InputUnchanged ==
    [][/\ raw_surveillance' = raw_surveillance
       /\ raw_specimens' = raw_specimens]_vars

\* both tables were cleaned, the results differ from the raw tables, and the
\* raw tables still hold the raw cells
C10_Witness ==
    /\ pc = "processed"
    /\ Len(raw_specimens.rows) = 1
    /\ raw_specimens.rows[1]["Species"] = S(" culex ")
    /\ clean_specimens.rows[1]["Species"] = S("Culex")
    /\ "DataQualityFlag" \notin raw_specimens.cols
    /\ "DataQualityFlag" \in clean_specimens.cols
    /\ "DataQualityFlag" \notin raw_surveillance.cols
    /\ "DataQualityFlag" \in clean_surveillance.cols

-----------------------------------------------------------------------------
(* Claims about the report rows *)

\* the cleaned specimens of one session
SpecimensOf(session_id) ==
    {i \in 1..Len(clean_specimens.rows) :
        CellEq(clean_specimens.rows[i]["SessionID"], session_id)}

(* C1: in every report row total = totalAnopheles + totalOtherMosquitoes,  *)
(* and total is the number of specimens of the row's session: each of them *)
(* increments total and exactly one of the two.                            *)
C1_TotalsAddUp ==
    pc = "exported" =>
        \A n \in 1..Len(report.rows) :
            LET counts == report.rows[n].counts IN
            /\ counts["total"]
                  = counts["totalAnopheles"] + counts["totalOtherMosquitoes"]
            /\ counts["total"]
                  = Cardinality(SpecimensOf(report.rows[n].session_id))

\* a row that counts an Anopheles and a specimen of an unrecognised label
C1_Witness ==
    /\ pc = "exported"
    /\ Len(report.rows) > 0
    /\ report.rows[1].counts["total"] = 2
    /\ report.rows[1].counts["totalAnopheles"] = 1
    /\ report.rows[1].counts["totalOtherMosquitoes"] = 1
    /\ \E i \in SpecimensOf(report.rows[1].session_id) :
           clean_specimens.rows[i]["Species"] = S("Non-Mosquito")

RECURSIVE SumOf(_, _)
\* the sum of the counters of a set of names
SumOf(counts, names) ==
    IF names = {} THEN 0
    ELSE LET name == CHOOSE x \in names : TRUE
         IN  counts[name] + SumOf(counts, names \ {name})

\* the 18 species-group x feeding-status columns of the report
StatusColumns ==
    {"anGambiaeUF", "anGambiaeF", "anGambiaeG",
     "anFunestusUF", "anFunestusF", "anFunestusG",
     "anOtherUF", "anOtherF", "anOtherG",
     "CulexUF", "CulexF", "CulexG",
     "AedesUF", "AedesF", "AedesG",
     "MansoniaUF", "MansoniaF", "MansoniaG"}

RecognisedLabel(species) ==
    \E w \in {"gambiae", "funestus", "anopheles", "culex", "aedes", "mansonia"} :
        Contains(w, Lower(AsStr(species)))

C3_SexCounters ==
    pc = "exported" =>
        /\ \A n \in 1..Len(report.rows) : \A b \in Branches :
              LET counts == report.rows[n].counts
                  OfSex(sex) ==
                      {i \in SpecimensOf(report.rows[n].session_id) :
                          /\ SpeciesBranch(Lower(AsStr(
                                 clean_specimens.rows[i]["Species"]))) = b
                          /\ clean_specimens.rows[i]["Sex"] = S(sex)}
              IN  /\ counts[BranchCounters[b].female]
                        = Cardinality(OfSex("Female"))
                  /\ counts[BranchCounters[b].male]
                        = Cardinality(OfSex("Male"))
        /\ (raw_surveillance = ScenarioSurveillance
            /\ raw_specimens = ScenarioSpecimens) =>
              LET counts == report.rows[1].counts IN
              /\ counts["total"] = 2
              /\ counts["totalAnopheles"] = 1
              /\ counts["totalOtherMosquitoes"] = 1
              /\ counts["anGambiaeG"] = 1
              /\ counts["AnGambiaeFemale"] = 1
              /\ counts["AnGambiaeMale"] = 0
              /\ counts["CulexUF"] = 1
              /\ counts["culexMale"] = 1

-----------------------------------------------------------------------------
(* Claims about the indoor resting density *)

\* the session identifiers of the cleaned surveillance table are unique
UniqueSessionIds ==
    \A i, j \in 1..Len(clean_surveillance.rows) :
        CellEq(clean_surveillance.rows[i]["SessionID"],
               clean_surveillance.rows[j]["SessionID"]) => i = j

\* the sessions whose collection method contains 'PSC', in any casing
PscSessions ==
    {i \in 1..Len(clean_surveillance.rows) :
        LET m == clean_surveillance.rows[i]["SessionCollectionMethod"]
        IN  m.k = "s" /\ Contains("psc", Lower(m.s))}

\* the specimens that belong to one of those sessions
SpecimensOfPscSessions ==
    {j \in 1..Len(clean_specimens.rows) :
        \E i \in PscSessions :
            CellEq(clean_specimens.rows[j]["SessionID"],
                   clean_surveillance.rows[i]["SessionID"])}

\* the cell holds the number a / b
IsRatio(c, a, b) == c.k = "n" /\ c.n * b = a * c.d

(* C4: given unique session identifiers, avg_mosquitoes_per_house is the   *)
(* number of specimens that belong to sessions whose collection method     *)
(* contains 'PSC' (case-insensitively) divided by the number of such       *)
(* sessions, PSC sessions without specimens counting as zero, and          *)
(* avg_anopheles_per_house the same ratio for the specimens whose species  *)
(* contains 'Anopheles'; one PSC session with an Anopheles gambiae and a   *)
(* Culex specimen gives 2.0 and 1.0.                                       *)
C4_IndoorDensity ==
    (pc = "metrics" /\ UniqueSessionIds /\ PscSessions # {}) =>
        /\ IsRatio(density.avg_mosquitoes_per_house,
                   Cardinality(SpecimensOfPscSessions),
                   Cardinality(PscSessions))
        /\ IsRatio(density.avg_anopheles_per_house,
                   Cardinality({j \in SpecimensOfPscSessions :
                       Contains("anopheles",
                           Lower(AsStr(clean_specimens.rows[j]["Species"])))}),
                   Cardinality(PscSessions))
        /\ (raw_surveillance = ScenarioSurveillance
            /\ raw_specimens = ScenarioSpecimens) =>
              /\ IsRatio(density.avg_mosquitoes_per_house, 2, 1)
              /\ IsRatio(density.avg_anopheles_per_house, 1, 1)

-----------------------------------------------------------------------------
(* Claims about the merged table *)

\* no two rows of the cleaned surveillance table carry the same session
\* identifier (two missing identifiers are the same identifier)
UniqueMergeKeys ==
    \A i, j \in 1..Len(clean_surveillance.rows) :
        MergeKeyEq(clean_surveillance.rows[i]["SessionID"],
                   clean_surveillance.rows[j]["SessionID"]) => i = j

\* the session columns of a merged row, under the names the merge gives them
SessionColumns ==
    (SessionCols \cap clean_surveillance.cols) \ {"SessionID"}

(* C11: when the session identifiers of the surveillance table are unique, *)
(* merge_data returns one row per specimen, in the order of the specimens:  *)
(* row i holds the columns of specimen i, and its session columns equal     *)
(* those of the session with the same SessionID, or are all null when no    *)
(* session has that SessionID (the orphan is kept).                         *)
C11_MergeOneRowPerSpecimen ==
    (pc = "merged" /\ UniqueMergeKeys) =>
        /\ Len(merged.rows) = Len(clean_specimens.rows)
        /\ \A i \in 1..Len(merged.rows) :
            /\ \A c \in clean_specimens.cols :
                   merged.rows[i][c] = clean_specimens.rows[i][c]
            /\ \A c \in SessionColumns :
                LET name == MergedName(clean_specimens.cols, c)
                    same == {j \in 1..Len(clean_surveillance.rows) :
                                MergeKeyEq(clean_specimens.rows[i]["SessionID"],
                                     clean_surveillance.rows[j]["SessionID"])}
                IN  /\ name \in merged.cols
                    /\ \A j \in same :
                           merged.rows[i][name] = clean_surveillance.rows[j][c]
                    /\ same = {} => merged.rows[i][name] = NaN

\* a specimen of session 1 next to an orphan: the first row carries the
\* session's method and district, the orphan's session columns are null
C11_Witness ==
    /\ pc = "merged"
    /\ UniqueMergeKeys
    /\ Len(clean_surveillance.rows) = 2
    /\ Len(merged.rows) = 2
    /\ merged.rows[1]["SessionID"] = N(1)
    /\ merged.rows[1]["SessionCollectionMethod_session"] = S("PSC")
    /\ merged.rows[1]["SiteDistrict"] = S("Gulu")
    /\ merged.rows[2]["SessionID"] = N(7)
    /\ merged.rows[2]["SessionCollectionMethod_session"] = NaN
    /\ merged.rows[2]["LlinUsageRate"] = NaN

-----------------------------------------------------------------------------
(* Claims about the quality flag of the surveillance rows *)

\* the cleaned cell is a number greater than bound / 1
NumberAbove(c, num, den) == c.k = "n" /\ c.n * den > num * c.d

\* column col of cleaned row i is a number greater than times * column other
ColumnAbove(i, col, times, other) ==
    /\ {col, other} \subseteq clean_surveillance.cols
    /\ clean_surveillance.rows[i][other].k = "n"
    /\ NumberAbove(clean_surveillance.rows[i][col],
                   times * clean_surveillance.rows[i][other].n,
                   clean_surveillance.rows[i][other].d)

(* C12: every cleaned surveillance row is flagged 'Suspicious: Large       *)
(* household' when NumPeopleSleptInHouse > 50 (also when the nets check     *)
(* matches), otherwise 'Suspicious: More people than nets' when             *)
(* NumPeopleSleptUnderLlin > 2 * NumLlinsAvailable, otherwise 'OK'; both    *)
(* comparisons are strict and a null operand triggers no flag.              *)
C12_QualityFlag ==
    pc # "start" =>
        \A i \in 1..Len(clean_surveillance.rows) :
            LET row == clean_surveillance.rows[i]
                large == /\ "NumPeopleSleptInHouse" \in clean_surveillance.cols
                         /\ NumberAbove(row["NumPeopleSleptInHouse"], 50, 1)
                nets == ColumnAbove(i, "NumPeopleSleptUnderLlin", 2,
                                    "NumLlinsAvailable")
            IN  row["DataQualityFlag"] =
                    IF large THEN S("Suspicious: Large household")
                    ELSE IF nets THEN S("Suspicious: More people than nets")
                    ELSE S("OK")

\* a household of 51 with 10 sleepers under 2 nets is flagged as large, and a
\* household of 50 with 4 sleepers under 2 nets stays OK
C12_Witness ==
    /\ pc # "start"
    /\ Len(clean_surveillance.rows) = 2
    /\ clean_surveillance.rows[1]["NumPeopleSleptInHouse"] = N(51)
    /\ clean_surveillance.rows[1]["NumPeopleSleptUnderLlin"] = N(10)
    /\ clean_surveillance.rows[1]["NumLlinsAvailable"] = N(2)
    /\ clean_surveillance.rows[1]["DataQualityFlag"]
           = S("Suspicious: Large household")
    /\ clean_surveillance.rows[2]["NumPeopleSleptInHouse"] = N(50)
    /\ clean_surveillance.rows[2]["NumPeopleSleptUnderLlin"] = N(4)
    /\ clean_surveillance.rows[2]["NumLlinsAvailable"] = N(2)
    /\ clean_surveillance.rows[2]["DataQualityFlag"] = S("OK")

-----------------------------------------------------------------------------
(* Claims about the rates of the metrics bundle *)

(* C13: on an empty surveillance table and an empty specimens table the     *)
(* bundle is computed without an exception, the average LLIN usage rate     *)
(* and the two indoor-density averages are 0 (not NaN) and                  *)
(* specimens-per-collection has no non-zero entry.                          *)
C13_EmptyInputRates ==
    (/\ pc \in {"processed", "bundle", "raised"}
     /\ Len(raw_surveillance.rows) = 0
     /\ Len(raw_specimens.rows) = 0) =>
        /\ pc # "raised"
        /\ pc = "bundle" =>
            /\ IsRatio(metrics.avg_llin_usage_rate, 0, 1)
            /\ IsRatio(metrics.avg_mosquitoes_per_house, 0, 1)
            /\ IsRatio(metrics.avg_anopheles_per_house, 0, 1)
            /\ \A e \in metrics.specimens_per_collection : IsRatio(e[2], 0, 1)

-----------------------------------------------------------------------------
(* Claims about the rows of the report *)

\* the report rows of one session identifier
RowsOf(session_id) ==
    {n \in 1..Len(report.rows) : CellEq(report.rows[n].session_id, session_id)}

(* C14: the report has exactly one row for every session identifier of the *)
(* surveillance table, however many rows carry it, no row for any other     *)
(* identifier, and all-zero counts in the row of a session without          *)
(* specimens.                                                               *)
C14_OneRowPerSession ==
    pc = "exported" =>
        /\ \A i \in 1..Len(clean_surveillance.rows) :
               Cardinality(RowsOf(clean_surveillance.rows[i]["SessionID"])) = 1
        /\ \A n \in 1..Len(report.rows) :
            /\ \E i \in 1..Len(clean_surveillance.rows) :
                   CellEq(clean_surveillance.rows[i]["SessionID"],
                          report.rows[n].session_id)
            /\ SpecimensOf(report.rows[n].session_id) = {} =>
                   \A name \in DOMAIN report.rows[n].counts :
                       report.rows[n].counts[name] = 0

\* two surveillance rows of session 1 give one report row, and it is all
\* zero although the specimens table holds a specimen of another session
C14_Witness ==
    /\ pc = "exported"
    /\ Len(clean_surveillance.rows) = 2
    /\ Len(report.rows) = 1
    /\ Len(clean_specimens.rows) = 1
    /\ SpecimensOf(report.rows[1].session_id) = {}
    /\ report.rows[1].counts["total"] = 0

\* the cleaning has coerced the SessionID cell of a surveillance row to null
SomeSessionIdCoerced ==
    /\ ~clean_surveillance.absent
    /\ "SessionID" \in clean_surveillance.cols
    /\ \E i \in 1..Len(clean_surveillance.rows) :
           IsNA(clean_surveillance.rows[i]["SessionID"])

\* C21: a run whose surveillance snapshot has one unparseable SessionID,
\* coerced to null by the cleaning, is not aborted by it: when the run comes
\* to the per-house report, the report builder does not raise on the cleaned
\* tables.
C21_UnparseableSessionIdCompletes ==
    (run.step = "export_report" /\ SomeSessionIdCoerced) =>
        ~export_report_format(clean_surveillance, clean_specimens).raised

\* C22: in the bundle computed from an empty surveillance table the
\* surveillance completeness is 0, and from an empty specimens table the
\* specimens completeness is 0 (not NaN).
C22_CompletenessNullGuarded ==
    pc = "bundle" =>
        /\ Len(clean_surveillance.rows) = 0 =>
               IsRatio(metrics.surveillance_completeness, 0, 1)
        /\ Len(clean_specimens.rows) = 0 =>
               IsRatio(metrics.specimens_completeness, 0, 1)

\* the status the abdomen statuses of the feeds have: 'Fully Fed' is fed,
\* 'Gravid' and 'Half Gravid' are gravid, 'Unfed' and anything else, a
\* missing status included, are unfed
StatusOf(abdomen) ==
    IF abdomen = S("Fully Fed") THEN "F"
    ELSE IF abdomen \in {S("Gravid"), S("Half Gravid")} THEN "G"
    ELSE "UF"

\* the status counters of the six species groups for one status
CountersOfStatus(st) == {BranchCounters[b].status \o st : b \in Branches}

Filtered ==
    /\ \E i \in 1..Len(run.started) : run.started[i] = "filtering"
    /\ "filtering" \notin run.errors

\* every row of the table has session type SURVEILLANCE, compared after
\* trimming and upper-casing
OnlySurveillanceSessions(t) ==
    \A i \in 1..Len(t.rows) :
        Upper(Strip(AsStr(t.rows[i][SessionTypeColumn(t.cols)])))
            = "SURVEILLANCE"

\* C24: after the filtering step, when the surveillance table has a
\* session-type column, every session row handed to the cleaner, and so
\* every row of the cleaned table and of the store, is a SURVEILLANCE
\* session.
C24_OnlySurveillanceSessions ==
    (Filtered /\ SessionTypeColumn(raw_surveillance.cols) # "") =>
        /\ OnlySurveillanceSessions(raw_surveillance)
        /\ ~clean_surveillance.absent =>
               OnlySurveillanceSessions(clean_surveillance)

\* the calls made with a category
KeyedCalls == {i \in 1..Len(calls) : ~IsNA(calls[i].category)}

\* the most recent call for the key of call i
IsLatest(i) ==
    \A j \in (i + 1)..Len(calls) : ~SameKey(calls[j], calls[i])

\* C25: after any sequence of insert_metric calls, the table holds for
\* every key (year_month, metric_name, category) with a category that was
\* inserted exactly one row, with the value and the payload of the most
\* recent call for the key, and no row of such a key other than these: a
\* call changes the row of its own key only.
C25_OneRowPerKey ==
    pc = "store" =>
        /\ \A r1, r2 \in monthly_metrics : SameKey(r1, r2) => r1 = r2
        /\ \A i \in KeyedCalls :
               IsLatest(i) =>
                   \E r \in monthly_metrics :
                       /\ SameKey(r, calls[i])
                       /\ r.metric_value = calls[i].metric_value
                       /\ r.metric_json = calls[i].metric_json
        /\ \A r \in monthly_metrics :
               ~IsNA(r.category) =>
                   \E i \in KeyedCalls : IsLatest(i) /\ SameKey(r, calls[i])

\* the value 5 of a key was replaced by 7 while the row of another key,
\* inserted between the two, is still there
C25_Witness ==
    /\ pc = "store"
    /\ Len(calls) = 3
    /\ SameKey(calls[1], calls[3])
    /\ ~SameKey(calls[1], calls[2])
    /\ ~IsNA(calls[2].category)
    /\ calls[1].metric_value = N(5)
    /\ calls[3].metric_value = N(7)
    /\ Cardinality(monthly_metrics) = 2
    /\ \E r \in monthly_metrics : r.id = 2 /\ SameKey(r, calls[2])
    /\ \E r \in monthly_metrics : r.id = 3 /\ r.metric_value = N(7)

\* the insert of the specimens table has raised, after the sessions table
\* was replaced, and run() has returned
FailedBetweenInserts ==
    /\ run.success = "false"
    /\ run.failed_at = "insert_specimens"

\* C26: the two tables are replaced in two steps.  When the second one
\* fails, the run ends in failure with the sessions table holding the new
\* snapshot, not the sessions the process found, while the specimens table
\* holds what the process found (the previous run's rows, or the empty
\* table create_tables has just created), or is missing, or is empty.
C26_ReplacementNotAtomic ==
    FailedBetweenInserts =>
        /\ run.store.sessions = clean_surveillance
        /\ \/ run.store.specimens
                  = CreateIfNotExists(run.before.store.specimens,
                                      SpecimensSchema)
           \/ run.store.specimens.absent
           \/ run.store.specimens.rows = <<>>

\* new sessions next to the specimens of the previous run
C26_Witness ==
    /\ FailedBetweenInserts
    /\ run.store.sessions = clean_surveillance
    /\ run.store.sessions # run.before.store.sessions
    /\ run.store.specimens = run.before.store.specimens
    /\ run.store.specimens.rows # <<>>
    /\ run.store.specimens # clean_specimens
    /\ run.exports = run.before.exports

\* the three status counters of a species group
StatusCountersOf(b) == {BranchCounters[b].status \o st : st \in {"UF", "F", "G"}}

\* the session's specimens of the species group whose lower-cased sex
\* contains neither 'male' nor 'female'
WithoutSex(session_id, b) ==
    {i \in SpecimensOf(session_id) :
        /\ SpeciesBranch(Lower(AsStr(clean_specimens.rows[i]["Species"]))) = b
        /\ ~Contains("male", Lower(AsStr(clean_specimens.rows[i]["Sex"])))}

\* C27: in every report row and for every species group, the Male and the
\* Female counter together are at most the three status counters of the
\* group, and fall short of them by the specimens of the group whose sex
\* matches neither 'male' nor 'female': such a specimen is in a status
\* counter and in the totals, and in no sex counter.
C27_SexWithinStatus ==
    pc = "exported" =>
        \A n \in 1..Len(report.rows) : \A b \in Branches :
            LET counts == report.rows[n].counts
                by_sex == counts[BranchCounters[b].male]
                              + counts[BranchCounters[b].female]
                by_status == SumOf(counts, StatusCountersOf(b))
            IN  /\ by_sex <= by_status
                /\ by_status - by_sex
                       = Cardinality(WithoutSex(report.rows[n].session_id, b))
                /\ Cardinality(WithoutSex(report.rows[n].session_id, b))
                       <= counts["total"]

\* a Culex without sex: in CulexF and the totals, in no sex counter
C27_Witness ==
    /\ pc = "exported"
    /\ \E n \in 1..Len(report.rows) :
           LET counts == report.rows[n].counts IN
           /\ counts["total"] = 1
           /\ counts["totalOtherMosquitoes"] = 1
           /\ counts["CulexF"] = 1
           /\ counts["culexMale"] = 0
           /\ counts["culexFemale"] = 0
           /\ Cardinality(WithoutSex(report.rows[n].session_id, "culex")) = 1

\* the nine status counters of the three Anopheles groups
AnophelesStatusCounters ==
    UNION {StatusCountersOf(b) : b \in {"gambiae", "funestus", "anopheles"}}

\* C28: in every report row totalAnopheles is the sum of the nine Anopheles
\* status counters and maleAnopheles the sum of AnGambiaeMale,
\* AnFunestusMale and AnOtherMale.
C28_AnophelesTotals ==
    pc = "exported" =>
        \A n \in 1..Len(report.rows) :
            LET counts == report.rows[n].counts IN
            /\ AnophelesStatusCounters =
                   {"anGambiaeUF", "anGambiaeF", "anGambiaeG",
                    "anFunestusUF", "anFunestusF", "anFunestusG",
                    "anOtherUF", "anOtherF", "anOtherG"}
            /\ counts["totalAnopheles"]
                   = SumOf(counts, AnophelesStatusCounters)
            /\ counts["maleAnopheles"]
                   = counts["AnGambiaeMale"] + counts["AnFunestusMale"]
                         + counts["AnOtherMale"]

\* a row with a male Anopheles gambiae, another Anopheles and nothing else
C28_Witness ==
    /\ pc = "exported"
    /\ \E n \in 1..Len(report.rows) :
           LET counts == report.rows[n].counts IN
           /\ counts["totalAnopheles"] = 2
           /\ counts["anGambiaeG"] = 1
           /\ counts["anOtherG"] = 1
           /\ counts["maleAnopheles"] >= 1
           /\ counts["AnGambiaeMale"] + counts["AnOtherMale"]
                  = counts["maleAnopheles"]

\* the report of the run has been written
ReportExported ==
    /\ \E i \in 1..Len(run.started) : run.started[i] = "export"
    /\ run.step # "export_report"
    /\ "export" \notin run.errors

\* the cleaned specimens whose SessionID is one of the surveillance table's
InSurveillance ==
    {i \in 1..Len(clean_specimens.rows) :
        \E j \in 1..Len(clean_surveillance.rows) :
            CellEq(clean_specimens.rows[i]["SessionID"],
                   clean_surveillance.rows[j]["SessionID"])}

Orphans == (1..Len(clean_specimens.rows)) \ InSurveillance

\* the sum of `total` over the first n rows of the report
TotalOfRows(rows, n) ==
    LET sum[i \in 0..n] ==
            IF i = 0 THEN 0 ELSE sum[i - 1] + rows[i].counts["total"]
    IN  sum[n]

SnapshotMissing ==
    run.cache.surveillance = <<>> \/ run.cache.specimens = <<>>

\* C30: with the skip-extraction flag the run leaves the raw-data directory
\* as it found it; what it has loaded, when the filtering is about to start,
\* is the most recently written snapshot of each feed; and when the
\* snapshot of a feed is missing, the run does not succeed and the store
\* and the export files stay as the process found them.
C30_SkipExtraction ==
    (pc = "run" /\ run.skip_extraction) =>
        /\ run.cache = run.before.cache
        /\ (run.step = "filtering" /\ ~SnapshotMissing) =>
               /\ raw_surveillance
                      = run.cache.surveillance[Len(run.cache.surveillance)]
               /\ raw_specimens
                      = run.cache.specimens[Len(run.cache.specimens)]
        /\ SnapshotMissing =>
               /\ run.success # "true"
               /\ run.store = run.before.store
               /\ run.exports = run.before.exports
               /\ Returned => run.success = "false"

\* the newer of two snapshot generations is loaded
C30_Witness ==
    /\ pc = "run"
    /\ run.skip_extraction
    /\ run.step = "filtering"
    /\ Len(run.cache.surveillance) = 2
    /\ raw_surveillance = RunSurveillance
    /\ raw_surveillance # run.cache.surveillance[1]
    /\ raw_specimens = RunSpecimens

====
